---- MODULE Spec2Model ----
(***************************************************************************)
(* Model of Descriptor/core: Configurator.parse() (parser.py), the Link    *)
(* and Joint renderers (parts.py) and the unit set-up of Manager.          *)
(*                                                                         *)
(* Names are sequences of one-character strings; the literals base_link,   *)
(* silver_default, ... are kept as one indivisible string each.  Lengths   *)
(* that are compared against the tolerance are integers in units of 1e-10. *)
(***************************************************************************)
EXTENDS Integers, Sequences, FiniteSets, TLC

VARIABLES
    host,             \* the CAD document: occurrences, joints, rigid groups, units
    pc,               \* position of the run inside Manager.run / Configurator.parse
    error,            \* the fatal error that ended the run, or None
    component_map,    \* Configurator.component_map, in iteration order
    body_mapper,      \* Configurator.body_mapper
    base_link,        \* Configurator.base_link (a token) or None
    links_by_token,   \* Configurator.links_by_token
    links_by_name,    \* Configurator.links_by_name
    joints_dict,      \* Configurator.joints_dict, ordered
    j_idx,            \* position of the loop over root.allJoints
    g_idx,            \* position of the loop over root.allRigidGroups
    material_dict,    \* Configurator.material_dict
    color_dict,       \* Configurator.color_dict
    body_dict,        \* Configurator.body_dict
    body_dict_urdf,   \* Configurator.body_dict_urdf
    link_origins,     \* Configurator.link_origins
    links,            \* Configurator.links, ordered
    joints,           \* Configurator.joints, ordered
    occurrences,      \* the local adjacency table of _build
    grounded_occ,     \* the local grounded_occ of _build
    boundary,         \* the local boundary of _build
    new_boundary,     \* the local new_boundary of _build
    bfs_todo,         \* members of boundary the for loop has not visited yet
    bfs_cur,          \* occ_name of the running for loop body, or None
    bfs_idx,          \* position in occurrences[occ_name]
    get_name_log,     \* history: every get_name call, <<token, returned name>>
    add_link_log,     \* history: every __add_link call, the link name
    rendered,         \* history: the text each entity rendered last, per entity
    writer_f,         \* Writer.f: what write_urdf has written to the .xacro file
    materials_f,      \* what write_materials_xacro has written to materials.xacro
    meshes_f,         \* the mesh files visible_to_stl has saved, in order
    configuration,    \* the configuration document handed to Manager, or NoDocument
    manager           \* the Manager that was constructed, or NoManager

vars == <<host, pc, error, component_map, body_mapper, base_link, links_by_token,
          links_by_name, joints_dict, j_idx, g_idx, material_dict, color_dict,
          body_dict, body_dict_urdf, link_origins, links, joints, occurrences,
          grounded_occ, boundary, new_boundary, bfs_todo, bfs_cur, bfs_idx,
          get_name_log, add_link_log, rendered, writer_f, materials_f, meshes_f,
          configuration, manager>>

None == "None"
\* absent values, by the kind of value that is absent
NoName == <<>>
NoPoint == <<>>
Throws == <<"throws">>
\* a geometry value of a type get_origin does not know
Unexpected == <<"unexpected">>
NoToken == 0
NoError == [kind |-> "none", tag |-> "", names |-> {}]
NoAppearance == [name |-> <<>>, color |-> None]
NoDocument == [kind |-> "none", keys |-> {}]
NoManager == [name_map |-> FALSE, merge_links |-> FALSE, extra_links |-> FALSE,
              locations |-> FALSE, root_name |-> FALSE, built |-> FALSE]

sceneVars == <<host, component_map, body_mapper>>
nameVars == <<links_by_token, links_by_name, get_name_log>>
jointVars == <<joints_dict, j_idx, g_idx>>
matVars == <<material_dict, color_dict>>
fileVars == <<writer_f, materials_f, meshes_f>>
mgrVars == <<configuration, manager>>
buildVars == <<body_dict, body_dict_urdf, link_origins, links, joints, occurrences,
               grounded_occ, boundary, new_boundary, bfs_todo, bfs_cur, bfs_idx,
               add_link_log>>

(***************************************************************************)
(* Bounds of the model.                                                    *)
(***************************************************************************)
NumOcc == 3
MaxJoints == 3
MaxBodies == 2
MaxRenders == 2
MaxKeys == 2

(***************************************************************************)
(* Ordered dictionaries (Python dict): sequences of [k, v] in insertion    *)
(* order; assignment to an existing key keeps its position.                *)
(***************************************************************************)
Keys(d) == {d[i].k : i \in 1..Len(d)}
Has(d, key) == \E i \in 1..Len(d) : d[i].k = key
Get(d, key) == d[CHOOSE i \in 1..Len(d) : d[i].k = key].v
Put(d, key, val) ==
    IF Has(d, key)
    THEN [i \in 1..Len(d) |-> IF d[i].k = key THEN [k |-> key, v |-> val] ELSE d[i]]
    ELSE Append(d, [k |-> key, v |-> val])
\* defaultdict(list): a missing key reads as the empty list
GetList(d, key) == IF Has(d, key) THEN Get(d, key) ELSE <<>>

(***************************************************************************)
(* utils: text helpers.                                                    *)
(***************************************************************************)
RECURSIVE Digits(_)
Digits(n) == IF n < 10 THEN <<ToString(n)>> ELSE Digits(n \div 10) \o <<ToString(n % 10)>>

RECURSIVE Flatten(_)
Flatten(ss) == IF ss = <<>> THEN <<>> ELSE Head(ss) \o Flatten(Tail(ss))
convert_german(name) ==
    Flatten([i \in 1..Len(name) |-> IF name[i] = "ae_umlaut" THEN <<"a", "e">> ELSE <<name[i]>>])

UnsafeChars == {" "}
format_name(name) == [i \in 1..Len(name) |-> IF name[i] \in UnsafeChars THEN "_" ELSE name[i]]

RECURSIVE rename_from(_, _, _)
rename_from(input, keys, count) ==
    LET cand == input \o <<"_">> \o Digits(count)
    IN  IF cand \notin keys THEN cand ELSE rename_from(input, keys, count + 1)
rename_if_duplicate(input, keys) ==
    IF input \notin keys THEN input ELSE rename_from(input, keys, 0)

(***************************************************************************)
(* Units (Manager.__init__) and tolerance (Configurator.__init__).         *)
(* doc_u and tar_u are kept in millimetres.                                *)
(***************************************************************************)
UnitMm(u) == IF u = "mm" THEN 1 ELSE IF u = "cm" THEN 10 ELSE 1000
doc_u == UnitMm(host.docUnits)
tar_u == UnitMm(host.targetUnits)
\* self.scale = doc_u / tar_u, as a fraction
scale == [num |-> doc_u, den |-> tar_u]
\* self.cm = 0.01 / tar_u, as a fraction
cm == [num |-> 10, den |-> tar_u]
\* 1e-7 in units of 1e-10
EpsBase == 1000
\* self.eps = 1e-7 / self.scale, in units of 1e-10
eps == (EpsBase * scale.den) \div scale.num

\* Matrix3D: v turned by k quarter turns about z
Rot(k, v) ==
    IF k % 4 = 0 THEN v
    ELSE IF k % 4 = 1 THEN <<-v[2], v[1], v[3]>>
    ELSE IF k % 4 = 2 THEN <<-v[1], -v[2], v[3]>>
    ELSE <<v[2], -v[1], v[3]>>
\* Matrix3D.invert
invert(m) == [rot |-> (4 - m.rot) % 4, trans |-> Rot(4 - m.rot, <<-m.trans[1], -m.trans[2], -m.trans[3]>>)]
\* Matrix3D.transformBy: m seen from the frame t maps to the world
transformBy(m, t) == [rot |-> (m.rot + t.rot) % 4,
                      trans |-> LET r == Rot(t.rot, m.trans)
                                IN  <<r[1] + t.trans[1], r[2] + t.trans[2], r[3] + t.trans[3]>>]

\* A serialized length is a decimal number, m * 10^e, with m not a multiple
\* of ten; the unit scale is a power of ten.
Log10(n) == IF n = 1 THEN 0 ELSE IF n = 10 THEN 1 ELSE IF n = 100 THEN 2 ELSE 3
RECURSIVE Dec(_, _)
Dec(m, e) ==
    IF m = 0 THEN [m |-> 0, e |-> 0]
    ELSE IF m % 10 = 0 THEN Dec(m \div 10, e + 1)
    ELSE [m |-> m, e |-> e]
\* c * s, where s is the target unit over the document unit
Times_inverse(c, s) == Dec(c, Log10(s.den) - Log10(s.num))
\* c * s for the fraction s
Times(c, s) == Dec(c, Log10(s.num) - Log10(s.den))

(***************************************************************************)
(* The host document.  An occurrence has a token (its index), a display    *)
(* name, flags, a transform and bodies; a joint has a name, a health       *)
(* state, a motion ordinal, two occurrences and the origin of each side.   *)
(***************************************************************************)
Body(name, visible) == [name |-> name, visible |-> visible, app |-> NoAppearance, mass |-> 1]
\* parent is the token of the occurrence it is a child occurrence of, 0 at
\* the top level; mass is what getPhysicalProperties reports for it
Occ(name, grounded, visible, bodies) ==
    [name |-> name, grounded |-> grounded, visible |-> visible, parent |-> 0,
     bodies |-> bodies, app |-> NoAppearance, mat |-> NoAppearance, mass |-> Len(bodies)]
\* A transform is a rotation about z, counted in quarter turns, and a
\* translation.  Unless an assembly says otherwise the occurrence of token t
\* is turned t quarter turns and stands at (t * 0.01, 0, 0).
Placement(occ) == [t \in DOMAIN occ |-> [rot |-> t % 4, trans |-> <<t * 100000000, 0, 0>>]]
\* occurrence.transform2 of token t
transform2(t) == host.place[t]

HostJoint(name, jt, one, two, o1, o2) ==
    [name |-> name, health |-> "healthy", stale |-> FALSE, jt |-> jt,
     one |-> one, two |-> two, o1 |-> o1, o2 |-> o2,
     axis |-> <<0, 0, 1>>, lo |-> 0, hi |-> 0, limEnabled |-> TRUE]
RigidGroup(name, occs) == [name |-> name, occs |-> occs]

Assembly(occ, js, groups, scan, rootName, docUnits, targetUnits) ==
    [occ |-> occ, joints |-> js, groups |-> groups, scan |-> scan,
     rootName |-> rootName, docUnits |-> docUnits, targetUnits |-> targetUnits,
     sub_mesh |-> TRUE, place |-> Placement(occ)]

Tokens == DOMAIN host.occ

SeqsUpTo(S, n) == UNION {[1..k -> S] : k \in 0..n}
Iota(n) == [i \in 1..n |-> i]

OneBody == <<Body(<<"b">>, TRUE)>>
LetterName(t) == <<<<"a">>, <<"b">>, <<"c">>, <<"d">>, <<"e">>, <<"f">>>>[t]
JointName(i) == <<"j">> \o Digits(i)

\* Joint graphs: NumOcc occurrences with distinct names, the first one
\* grounded, and every sequence of at most MaxJoints fixed joints.
GraphEdges == {<<p, c>> : p \in 1..NumOcc, c \in 1..NumOcc}
GraphAssemblies ==
    { Assembly([t \in 1..NumOcc |-> Occ(LetterName(t), t = 1, TRUE, OneBody)],
               [i \in 1..Len(es) |-> HostJoint(JointName(i), 0, es[i][1], es[i][2], NoPoint, NoPoint)],
               <<>>, Iota(NumOcc), <<"robot">>, "cm", "m")
      : es \in SeqsUpTo(GraphEdges, MaxJoints) }

FixedJoint(name, one, two) == HostJoint(name, 0, one, two, NoPoint, NoPoint)

\* Diamonds: two paths of two joints each from the grounded occurrence to
\* the fourth one, with every combination of declared directions.
Directed(flip, p, c) == IF flip THEN <<c, p>> ELSE <<p, c>>
DiamondAssemblies ==
    { Assembly([t \in 1..4 |-> Occ(LetterName(t), t = 1, TRUE, OneBody)],
               <<FixedJoint(JointName(1), Directed(f[1], 1, 2)[1], Directed(f[1], 1, 2)[2]),
                 FixedJoint(JointName(2), Directed(f[2], 1, 3)[1], Directed(f[2], 1, 3)[2]),
                 FixedJoint(JointName(3), Directed(f[3], 2, 4)[1], Directed(f[3], 2, 4)[2]),
                 FixedJoint(JointName(4), Directed(f[4], 3, 4)[1], Directed(f[4], 3, 4)[2])>>,
               <<>>, Iota(4), <<"robot">>, "cm", "m")
      : f \in [1..4 -> BOOLEAN] }

\* Trees: four occurrences nested in one another in several shapes, each
\* with one body that is shown or hidden and has a mass of its own; the mass
\* of an occurrence is the mass of all bodies below it.  The first occurrence
\* is grounded and joined to each of the others.
BodyMass(t) == <<1, 2, 4, 8>>[t]
RECURSIVE SubtreeOf(_, _)
SubtreeOf(par, t) == {t} \cup UNION {SubtreeOf(par, c) : c \in {c \in DOMAIN par : par[c] = t}}
RECURSIVE TreeMass(_)
TreeMass(S) == IF S = {} THEN 0 ELSE LET x == CHOOSE x \in S : TRUE IN BodyMass(x) + TreeMass(S \ {x})
TreeAssemblies ==
    LET TreeShapes == { <<0, 0, 0, 0>>, <<0, 1, 0, 0>>, <<0, 1, 1, 0>>, <<0, 1, 2, 0>>,
                        <<0, 1, 2, 3>> }
        TreeOcc(par, shown, t) ==
            [Occ(LetterName(t), t = 1, TRUE,
                 <<[Body(<<"b">>, shown[t]) EXCEPT !.mass = BodyMass(t)]>>)
                EXCEPT !.parent = par[t], !.mass = TreeMass(SubtreeOf(par, t))]
    IN  { Assembly([t \in 1..4 |-> TreeOcc(par, shown, t)],
                   <<FixedJoint(JointName(1), 1, 2), FixedJoint(JointName(2), 1, 3),
                     FixedJoint(JointName(3), 1, 4)>>,
                   <<>>, Iota(4), <<"robot">>, "cm", "m")
          : par \in TreeShapes, shown \in [1..4 -> BOOLEAN] }

\* Naming: occurrences, joints and rigid groups that share display names,
\* among them names that look like a renamed duplicate.
OccNames == {<<"a">>, <<"a", "_", "0">>, <<"base_link">>, <<"a", " ", "b">>}
NameJoints ==
    { <<>>,
      <<FixedJoint(<<"j">>, 1, 2)>>,
      <<FixedJoint(<<"j">>, 1, 2), FixedJoint(<<"j">>, 3, 2)>>,
      <<FixedJoint(<<"j">>, 3, 2), FixedJoint(<<"j", "_", "0">>, 1, 2)>> }
NameGroups == { <<>>, <<RigidGroup(<<"j">>, <<1, 2, 3>>)>>, <<RigidGroup(<<"j">>, <<3, 2>>)>> }
NameAssemblies ==
    { Assembly([t \in 1..3 |-> Occ(IF t = 1 THEN <<"a">> ELSE nm[t], t = 1, TRUE, OneBody)],
               js, gs, scan, <<"robot">>, "cm", "m")
      : nm \in [2..3 -> OccNames], js \in NameJoints, gs \in NameGroups,
        scan \in {<<1, 2, 3>>, <<3, 2, 1>>} }

\* Grounding and reachability: any set of grounded occurrences, any scan
\* order, an occurrence that may be hidden or without bodies, and a root
\* component that may carry the name of an occurrence.
BaseBodies == { <<>>, <<Body(<<"b">>, TRUE)>>, <<Body(<<"b">>, FALSE)>> }
BaseJoints == { <<>>, <<FixedJoint(JointName(1), 1, 2)>>,
                <<FixedJoint(JointName(1), 1, 2), FixedJoint(JointName(2), 2, 3)>> }
BaseAssemblies ==
    { Assembly([t \in 1..3 |-> Occ(LetterName(t), t \in g, t # 3 \/ vis,
                                   IF t = 3 THEN bodies ELSE OneBody)],
               js, <<>>, scan, root, "cm", "m")
      : g \in SUBSET (1..3), vis \in BOOLEAN, bodies \in BaseBodies, js \in BaseJoints,
        scan \in {<<1, 2, 3>>, <<3, 2, 1>>, <<2, 3, 1>>}, root \in {<<"robot">>, <<"c">>} }

\* Mesh names: occurrence and body names with and without underscores.
MeshOccNames == {<<"a">>, <<"a", "_", "b">>, <<"a", " ", "b">>}
MeshBodyNames == {<<"b">>, <<"c">>, <<"b", "_", "c">>}
MeshBodies == {[i \in 1..Len(ns) |-> Body(ns[i], TRUE)] : ns \in SeqsUpTo(MeshBodyNames, MaxBodies)}
MeshAssemblies ==
    { Assembly(<<Occ(<<"a">>, FALSE, TRUE, b1), Occ(n2, FALSE, TRUE, b2),
                 Occ(<<"c">>, TRUE, TRUE, <<>>)>>,
               <<FixedJoint(JointName(1), 3, 1), FixedJoint(JointName(2), 1, 2)>>, <<>>,
               Iota(3), <<"robot">>, "cm", "m")
      : n2 \in MeshOccNames, b1 \in MeshBodies, b2 \in MeshBodies }

\* Joint origins: one joint of any kind between two occurrences, each side
\* with or without an origin, under every pair of document and target units.
Units == {"mm", "cm", "m"}
\* (0,0,0), (0,0,1e-9) and (0,0,0.01)
Origins == { <<0, 0, 0>>, <<0, 0, 10>>, <<0, 0, 100000000>> }
ToleranceAssemblies ==
    { Assembly([t \in 1..2 |-> Occ(LetterName(t), t = 1, TRUE, OneBody)],
               <<HostJoint(JointName(1), jt, 1, 2, o1, o2)>>, <<>>, Iota(2),
               <<"robot">>, du, tu)
      : jt \in {0, 1, 2}, o1 \in Origins \cup {NoPoint}, o2 \in Origins \cup {NoPoint},
        du \in Units, tu \in Units }

\* Faults: a joint of any health state, stale or not, whose sides may have no
\* origin, may fail to resolve or may resolve to an unknown type, followed
\* by a sound fixed joint.
HealthStates == {"healthy", "suppressed", "rolledback", "error"}
Geometries == {<<0, 0, 0>>, NoPoint, Throws, Unexpected}
FaultAssemblies ==
    { Assembly([t \in 1..3 |-> Occ(LetterName(t), t = 1, TRUE, OneBody)],
               <<[HostJoint(JointName(1), jt, 1, 2, o1, o2) EXCEPT !.health = h, !.stale = st],
                 FixedJoint(JointName(2), 1, 3)>>,
               <<>>, Iota(3), <<"robot">>, "cm", "m")
      : jt \in {0, 1}, o1 \in Geometries, o2 \in Geometries, h \in HealthStates,
        st \in BOOLEAN }

\* Poses: a diamond whose fourth occurrence hangs on two joints, each
\* fixed or revolute, each with its own origin.
PoseOrigins == { <<0, 0, 0>>, <<0, 0, 5>> }
PoseAssemblies ==
    { Assembly([t \in 1..4 |-> Occ(LetterName(t), t = 1, TRUE, OneBody)],
               <<FixedJoint(JointName(1), 1, 2), FixedJoint(JointName(2), 1, 3),
                 HostJoint(JointName(3), k3, 2, 4, p3, NoPoint),
                 HostJoint(JointName(4), k4, 3, 4, p4, NoPoint)>>,
               <<>>, Iota(4), <<"robot">>, "cm", "m")
      : k3 \in {0, 1}, k4 \in {0, 1}, p3 \in PoseOrigins, p4 \in PoseOrigins }

\* Unit scale: the grounded occurrence at the origin, turned or not, and a
\* second one 100 away from it, held by a fixed joint or by a slider whose
\* origin is 100 away and whose limits are -5 and 5, under every pair of
\* document and target units.
SlideLimit == 500000
UnitAssemblies ==
    { [Assembly([t \in 1..2 |-> Occ(LetterName(t), t = 1, TRUE, OneBody)],
                <<[HostJoint(JointName(1), jt, 1, 2, <<100, 0, 0>>, NoPoint)
                      EXCEPT !.lo = -SlideLimit, !.hi = SlideLimit]>>,
                <<>>, Iota(2), <<"robot">>, du, tu)
          EXCEPT !.place = <<[rot |-> r, trans |-> <<0, 0, 0>>],
                             [rot |-> 1, trans |-> <<100, 0, 0>>]>>]
      : jt \in {0, 2}, r \in {0, 1}, du \in Units, tu \in Units }

\* Kinds: one joint of each of the seven kinds of motion.
KindAssemblies ==
    { Assembly([t \in 1..2 |-> Occ(LetterName(t), t = 1, TRUE, OneBody)],
               <<HostJoint(JointName(1), jt, 1, 2, <<0, 0, 0>>, NoPoint)>>,
               <<>>, Iota(2), <<"robot">>, "cm", "m")
      : jt \in 0..6 }

\* Body tables: two occurrences, with or without a visible body, whose
\* names may differ in nothing but a character format_name rewrites.
TableNames == {<<"a">>, <<"a", " ", "b">>, <<"a", "_", "b">>}
TableBodies == { <<>>, <<Body(<<"b">>, TRUE)>>, <<Body(<<"b">>, FALSE)>> }
TableAssemblies ==
    { Assembly(<<Occ(<<"c">>, TRUE, TRUE, OneBody), Occ(n2, FALSE, TRUE, b2),
                 Occ(n3, FALSE, TRUE, b3)>>,
               <<FixedJoint(JointName(1), 1, 2), FixedJoint(JointName(2), 1, 3)>>, <<>>,
               Iota(3), <<"robot">>, "cm", "m")
      : n2 \in TableNames, n3 \in TableNames, b2 \in TableBodies, b3 \in TableBodies }

\* Limits: one joint of each kind of motion along x, with limits that are
\* both zero, different, or equal and not zero, enabled or not, under every
\* target unit.  Angles are in 1e-5 rad, distances in 1e-5 cm.
LimitAssemblies ==
    LET JointLimits == { <<0, 0>>, <<-100000, 200000>>, <<150000, 150000>> } IN
    { Assembly([t \in 1..2 |-> Occ(LetterName(t), t = 1, TRUE, OneBody)],
               <<[HostJoint(JointName(1), jt, 1, 2, <<0, 0, 0>>, NoPoint)
                     EXCEPT !.axis = <<1, 0, 0>>, !.lo = lim[1], !.hi = lim[2],
                            !.limEnabled = en]>>,
               <<>>, Iota(2), <<"robot">>, "cm", tu)
      : jt \in 0..6, lim \in JointLimits, en \in BOOLEAN, tu \in Units }

\* A root component without any occurrence.
EmptyAssemblies == { Assembly(<<>>, <<>>, <<>>, <<>>, <<"robot">>, "cm", "m") }

\* Appearances: the second occurrence with or without an appearance of its
\* own, with no body, a plain body, a painted body or a plain and a painted
\* one, and with or without a material; an appearance may lack a colour
\* property.  The links are written per body or as one mesh.
AppearanceAssemblies ==
    LET Paint(name, color) == [name |-> name, color |-> color]
        OccPaints == {NoAppearance, Paint(<<"r">>, "1.0 0.0 0.0 1.0"), Paint(<<"d">>, None)}
        PlainBody == Body(<<"b">>, TRUE)
        PaintedBody == [Body(<<"c">>, TRUE) EXCEPT !.app = Paint(<<"u">>, "0.0 0.0 1.0 1.0")]
        PaintBodies == {<<>>, <<PlainBody>>, <<PaintedBody>>, <<PlainBody, PaintedBody>>}
        Materials == {NoAppearance, Paint(<<"s">>, "0.5 0.5 0.5 1.0")}
    IN
    { [Assembly(<<Occ(<<"a">>, TRUE, TRUE, OneBody),
                  [Occ(<<"b">>, FALSE, TRUE, bodies) EXCEPT !.app = app, !.mat = mat]>>,
                <<FixedJoint(JointName(1), 1, 2)>>, <<>>, Iota(2), <<"robot">>, "cm", "m")
         EXCEPT !.sub_mesh = sub]
      : app \in OccPaints, bodies \in PaintBodies, mat \in Materials, sub \in BOOLEAN }

Assemblies ==
    GraphAssemblies \cup DiamondAssemblies \cup NameAssemblies \cup BaseAssemblies
        \cup MeshAssemblies \cup ToleranceAssemblies \cup FaultAssemblies
        \cup PoseAssemblies \cup UnitAssemblies \cup KindAssemblies \cup TableAssemblies
        \cup TreeAssemblies \cup AppearanceAssemblies \cup LimitAssemblies
        \cup EmptyAssemblies

(***************************************************************************)
(* Fatal errors (utils.fatal) and other ways a run ends early.             *)
(***************************************************************************)
Fatal(tag, names) == [kind |-> "fatal", tag |-> tag, names |-> names]
Exit(tag) == [kind |-> "exit", tag |-> tag, names |-> {}]
Raised(tag) == [kind |-> "exception", tag |-> tag, names |-> {}]
Abort(e) ==
    /\ error' = e
    /\ pc' = "aborted"

(***************************************************************************)
(* Configurator.get_name on the naming state N = [tok, nm, log].  The name *)
(* returned by a call is the last entry of the log.                        *)
(***************************************************************************)
\* get_name that stores the display name as it is
get_name_norename(N, oc) ==
    IF oc \in DOMAIN N.tok
    THEN [N EXCEPT !.log = Append(@, [token |-> oc, name |-> N.tok[oc]])]
    ELSE LET name == host.occ[oc].name
         IN  [tok |-> (oc :> name) @@ N.tok,
              nm  |-> (name :> oc) @@ N.nm,
              log |-> Append(N.log, [token |-> oc, name |-> name])]
\* get_name that does not look the token up first
get_name_nocache(N, oc) ==
    LET name == rename_if_duplicate(host.occ[oc].name, DOMAIN N.nm)
    IN  [tok |-> (oc :> name) @@ N.tok,
         nm  |-> (name :> oc) @@ N.nm,
         log |-> Append(N.log, [token |-> oc, name |-> name])]

Naming == [tok |-> links_by_token, nm |-> links_by_name, log |-> get_name_log]
get_name(N, oc) ==
    IF oc \in DOMAIN N.tok
    THEN [N EXCEPT !.log = Append(@, [token |-> oc, name |-> N.tok[oc]])]
    ELSE LET name == rename_if_duplicate(host.occ[oc].name, DOMAIN N.nm)
         IN  [tok |-> (oc :> name) @@ N.tok,
              nm  |-> (name :> oc) @@ N.nm,
              log |-> Append(N.log, [token |-> oc, name |-> name])]
Returned(N) == N.log[Len(N.log)].name

EmptyFn == [x \in {} |-> None]

(***************************************************************************)
(* Manager.__init__: the units of the document and the configuration       *)
(* document, which is what yaml.load returned for the configuration file.  *)
(***************************************************************************)
ConfigKeys == {"RobotName", "SaveMesh", "SubMesh", "MeshResolution", "InertiaPrecision",
               "TargetUnits", "TargetPlatform", "NameMap", "MergeLinks", "Locations",
               "Extras", "Root"}
OtherKeys == {"robotname", "Joints"}
KeySets ==
    {K \in SUBSET (ConfigKeys \cup OtherKeys) : Cardinality(K) <= MaxKeys}
        \cup {ConfigKeys, ConfigKeys \cup {"Joints"}}
Documents ==
    {NoDocument} \cup {[kind |-> k, keys |-> {}] : k \in {"null", "list", "scalar"}}
        \cup {[kind |-> "dict", keys |-> K] : K \in KeySets}
DocumentUnits == {"mm", "cm", "m", "in"}
ManagerHosts ==
    { Assembly([t \in 1..2 |-> Occ(LetterName(t), t = 1, TRUE, OneBody)],
               <<FixedJoint(JointName(1), 1, 2)>>, <<>>, Iota(2), <<"robot">>, du, tu)
      : du \in DocumentUnits, tu \in {"m", "in"} }

\* the key test that lets every key pass
wrong_keys_none(document) == {}
\* lines 94-98
wrong_keys(document) == document.keys \ ConfigKeys
\* lines 84-104: the fields read from the document (TRUE) or left at their defaults
Constructed(document) ==
    [name_map |-> "NameMap" \in document.keys, merge_links |-> "MergeLinks" \in document.keys,
     extra_links |-> "Extras" \in document.keys, locations |-> "Locations" \in document.keys,
     root_name |-> "Root" \in document.keys, built |-> TRUE]

InitRest ==
    /\ error = NoError
    /\ component_map = <<>>
    /\ body_mapper = EmptyFn
    /\ base_link = NoToken
    /\ links_by_token = EmptyFn
    /\ links_by_name = EmptyFn
    /\ joints_dict = <<>>
    /\ j_idx = 1
    /\ g_idx = 1
    /\ material_dict = <<>>
    /\ color_dict = <<>>
    /\ body_dict = <<>>
    /\ body_dict_urdf = <<>>
    /\ link_origins = <<>>
    /\ links = <<>>
    /\ joints = <<>>
    /\ occurrences = <<>>
    /\ grounded_occ = {}
    /\ boundary = {}
    /\ new_boundary = {}
    /\ bfs_todo = {}
    /\ bfs_cur = NoName
    /\ bfs_idx = 1
    /\ get_name_log = <<>>
    /\ add_link_log = <<>>
    /\ rendered = [ent |-> <<>>, texts |-> <<>>]
    /\ writer_f = <<>>
    /\ materials_f = <<>>
    /\ meshes_f = <<>>

Init ==
    /\ host \in Assemblies
    /\ pc = "start"
    /\ configuration = NoDocument
    /\ manager = Constructed(NoDocument)
    /\ InitRest

InitManager ==
    /\ host \in ManagerHosts
    /\ pc = "init"
    /\ configuration \in Documents
    /\ manager = NoManager
    /\ InitRest

Manager_init ==
    /\ pc = "init"
    /\ IF host.docUnits \notin {"mm", "cm", "m"}
       THEN Abort(Raised("ValueError")) /\ UNCHANGED manager
       ELSE IF configuration = NoDocument
       THEN manager' = Constructed(NoDocument) /\ pc' = "constructed" /\ UNCHANGED error
       ELSE IF configuration.kind # "dict"
       THEN Abort(Raised("ValueError")) /\ UNCHANGED manager
       ELSE IF wrong_keys(configuration) # {}
       THEN Abort(Raised("ValueError")) /\ UNCHANGED manager
       ELSE manager' = Constructed(configuration) /\ pc' = "constructed" /\ UNCHANGED error
    /\ UNCHANGED <<sceneVars, base_link, nameVars, jointVars, matVars, buildVars, rendered,
                   fileVars, configuration>>

NextManager == Manager_init

(***************************************************************************)
(* Configurator.get_scene_configuration: component_map holds every         *)
(* occurrence (in the order the set pops produced, host.scan), and         *)
(* get_sub_bodies records the visible bodies each occurrence owns.         *)
(***************************************************************************)
IsVisibleBody(b) == b.visible
get_sub_bodies == [t \in Tokens |-> SelectSeq(host.occ[t].bodies, IsVisibleBody)]

(***************************************************************************)
(* Hierarchy: the nodes are the occurrences, by token.  A body is referred *)
(* to by the token of its occurrence and its position in bRepBodies.       *)
(***************************************************************************)
\* Hierarchy.children
get_children(t) == {c \in Tokens : host.occ[c].parent = t}
\* Hierarchy.get_all_children: the keys of child_map
RECURSIVE get_all_children(_)
get_all_children(t) ==
    get_children(t) \cup UNION {get_all_children(c) : c \in get_children(t)}
\* [component.bRepBodies.item(x) for x in range(0, count)]
bRepBodies(t) == [k \in 1..Len(host.occ[t].bodies) |-> <<t, k>>]
\* childs of get_flat_body: the children of the nodes of child_map that have children
childs(t) == UNION {get_children(x) : x \in get_all_children(t)}
\* the while loop of get_flat_body (lines 89-109); the set is popped in any
\* order, the bodies of a pass are the same ones in another order
RECURSIVE flat_loop(_, _, _, _)
flat_loop(t, parent_stack, closed_set, body_list) ==
    IF parent_stack = {} THEN body_list
    ELSE LET tmp == CHOOSE x \in parent_stack : TRUE
             closed == closed_set \cup {tmp}
             found == IF Len(host.occ[tmp].bodies) > 0
                      THEN body_list \o bRepBodies(tmp) ELSE body_list
             more == IF get_children(tmp) # {} THEN childs(t) \ closed ELSE {}
         IN  flat_loop(t, (parent_stack \ {tmp}) \cup more, closed, found)
\* Hierarchy.get_flat_body
get_flat_body(t) ==
    flat_loop(t, childs(t), {},
              IF get_all_children(t) = {} THEN bRepBodies(t) ELSE <<>>)
\* the mass of _get_inertia (lines 347-360)
RECURSIVE hidden_mass(_)
hidden_mass(body_lst) ==
    IF body_lst = <<>> THEN 0
    ELSE LET body == host.occ[Head(body_lst)[1]].bodies[Head(body_lst)[2]]
         IN  (IF ~body.visible THEN body.mass ELSE 0) + hidden_mass(Tail(body_lst))
_get_inertia(oc) == [mass |-> host.occ[oc].mass - hidden_mass(get_flat_body(oc))]

\* Hierarchy.traverse: TRUE when it returns, FALSE when assert occurrences
\* fails.  occs is the set of tokens of the collection occurrences; an empty
\* collection is false, which is what keeps line 174 from recursing into a
\* leaf.
RECURSIVE traverse(_)
traverse(occs) ==
    /\ occs # {}
    /\ \A occ \in occs : get_children(occ) # {} => traverse(get_children(occ))

get_scene_configuration ==
    /\ pc = "start"
    /\ IF traverse(get_children(0))
       THEN /\ component_map' = host.scan
            /\ body_mapper' = get_sub_bodies
            /\ pc' = "base"
            /\ UNCHANGED error
       ELSE Abort(Raised("AssertionError")) /\ UNCHANGED <<component_map, body_mapper>>
    /\ UNCHANGED <<host, base_link, nameVars, jointVars, matVars, buildVars, rendered, fileVars, mgrVars>>

\* where parse() continues once the loops of _joints have reached position i, g
AfterGroup(g) == IF g <= Len(host.groups) THEN "groups" ELSE "materials"
AfterJoint(i) == IF i <= Len(host.joints) THEN "joints" ELSE AfterGroup(1)

(***************************************************************************)
(* Configurator._base                                                      *)
(***************************************************************************)
GroundedPositions == {i \in 1..Len(component_map) : host.occ[component_map[i]].grounded}
\* the scan without the break: the last grounded occurrence wins
LastGrounded ==
    component_map[CHOOSE i \in GroundedPositions : \A k \in GroundedPositions : i >= k]
FirstGrounded ==
    component_map[CHOOSE i \in GroundedPositions : \A k \in GroundedPositions : i <= k]

\* _base that records the base link under its token only
_base_token_only ==
    /\ pc = "base"
    /\ IF GroundedPositions = {}
       THEN /\ error' = Exit("no grounded occurrence")
            /\ pc' = "aborted"
            /\ UNCHANGED <<base_link, links_by_token, links_by_name>>
       ELSE /\ base_link' = FirstGrounded
            /\ links_by_token' = (FirstGrounded :> <<"base_link">>) @@ links_by_token
            /\ links_by_name' = links_by_name
            /\ pc' = AfterJoint(1)
            /\ UNCHANGED error
    /\ UNCHANGED <<sceneVars, get_name_log, jointVars, matVars, buildVars, rendered, fileVars, mgrVars>>
_base ==
    /\ pc = "base"
    /\ IF GroundedPositions = {}
       THEN /\ error' = Exit("no grounded occurrence")
            /\ pc' = "aborted"
            /\ UNCHANGED <<base_link, links_by_token, links_by_name>>
       ELSE /\ base_link' = FirstGrounded
            /\ links_by_token' = (FirstGrounded :> <<"base_link">>) @@ links_by_token
            /\ links_by_name' = (<<"base_link">> :> FirstGrounded) @@ links_by_name
            /\ pc' = AfterJoint(1)
            /\ UNCHANGED error
    /\ UNCHANGED <<sceneVars, get_name_log, jointVars, matVars, buildVars, rendered, fileVars, mgrVars>>

(***************************************************************************)
(* Configurator._joints, first loop: one CAD joint per step.               *)
(***************************************************************************)
joint_type_list == <<"fixed", "revolute", "prismatic", "Cylinderical", "PinSlot", "Planner", "Ball">>
joint_order == <<"p", "c">>
ZeroPoint == <<0, 0, 0>>
\* 3.14159 in units of 1e-5
Pi5 == 314159

Abs(x) == IF x < 0 THEN -x ELSE x
\* any() where the code has all()
close_enough_any(a, b) == \E i \in 1..3 : Abs(a[i] - b[i]) < eps
close_enough(a, b) == \A i \in 1..3 : Abs(a[i] - b[i]) < eps

\* get_origin that answers a RuntimeError with the zero point
get_origin_zero(o) == IF o = Throws THEN ZeroPoint ELSE o
\* get_origin under the try/except of _joints: a RuntimeError reads as None;
\* the ValueError for a value of unknown type is not caught (see JointStep)
get_origin(o) == IF o = Throws THEN NoPoint ELSE o

JointInfo(name, parent, child, type, origin, axis, upper_limit, lower_limit) ==
    [name |-> name, parent |-> parent, child |-> child, type |-> type, origin |-> origin,
     axis |-> axis, upper_limit |-> upper_limit, lower_limit |-> lower_limit]
FixedJointInfo(name, parent, child) ==
    JointInfo(name, parent, child, "fixed", ZeroPoint, <<0, 0, 0>>, 0, 0)

\* the limits of a revolute joint multiplied by self.cm as well
MotionOf_scaled(joint) ==
    IF joint.jt = 1
    THEN [axis |-> joint.axis,
          max |-> IF joint.hi - joint.lo = 0 THEN Pi5 ELSE (joint.hi * cm.num) \div cm.den,
          min |-> IF joint.hi - joint.lo = 0 THEN -Pi5 ELSE (joint.lo * cm.num) \div cm.den]
    ELSE IF joint.jt = 2
    THEN [axis |-> joint.axis,
          max |-> (joint.hi * cm.num) \div cm.den,
          min |-> (joint.lo * cm.num) \div cm.den]
    ELSE [axis |-> <<0, 0, 0>>, max |-> 0, min |-> 0]
\* axis and limits by the class of joint.jointMotion (lines 459-483)
MotionOf(joint) ==
    IF joint.jt = 1
    THEN [axis |-> joint.axis,
          max |-> IF joint.hi - joint.lo = 0 THEN Pi5 ELSE joint.hi,
          min |-> IF joint.hi - joint.lo = 0 THEN -Pi5 ELSE joint.lo]
    ELSE IF joint.jt = 2
    THEN [axis |-> joint.axis,
          max |-> (joint.hi * cm.num) \div cm.den,
          min |-> (joint.lo * cm.num) \div cm.den]
    ELSE [axis |-> <<0, 0, 0>>, max |-> 0, min |-> 0]

\* the test that skips suppressed joints only
Skipped_suppressed(joint) == joint.health = "suppressed"
\* lines 396-398: a suppressed or rolled back joint is skipped
Skipped(joint) == joint.health \in {"suppressed", "rolledback"}

JointStep ==
    /\ pc = "joints"
    /\ LET joint == host.joints[j_idx]
           joint_type == joint_type_list[joint.jt + 1]
           name == rename_if_duplicate(joint.name, Keys(joints_dict))
           geom_one_origin == get_origin(joint.o1)
           geom_two_origin == get_origin(joint.o2)
           N1 == get_name(Naming, joint.one)
           N2 == get_name(N1, joint.two)
           occ_one_name == Returned(N1)
           occ_two_name == Returned(N2)
           parent == IF joint_order = <<"p", "c">> THEN occ_one_name ELSE occ_two_name
           child == IF joint_order = <<"p", "c">> THEN occ_two_name ELSE occ_one_name
           m == MotionOf(joint)
           Named == /\ links_by_token' = N2.tok
                    /\ links_by_name' = N2.nm
                    /\ get_name_log' = N2.log
           Store(info) == /\ joints_dict' = Put(joints_dict, name, info)
                          /\ j_idx' = j_idx + 1
                          /\ pc' = AfterJoint(j_idx + 1)
                          /\ UNCHANGED error
           Skip == /\ j_idx' = j_idx + 1
                   /\ pc' = AfterJoint(j_idx + 1)
                   /\ UNCHANGED <<error, joints_dict, nameVars>>
       IN  IF Skipped(joint)
           THEN Skip
           ELSE IF joint.health # "healthy"
           THEN Abort(Fatal("unexpected health state", {joint.name}))
                /\ UNCHANGED <<joints_dict, j_idx, nameVars>>
           ELSE IF joint.stale
           THEN Skip
           ELSE IF joint.o1 = Unexpected \/ joint.o2 = Unexpected
           THEN Abort(Raised("ValueError")) /\ UNCHANGED <<joints_dict, j_idx, nameVars>>
           ELSE IF joint_type = "fixed"
           THEN Named /\ Store(FixedJointInfo(name, parent, child))
           ELSE IF geom_one_origin = NoPoint
           THEN Named /\ Abort(Fatal("no origin", {joint.name}))
                /\ UNCHANGED <<joints_dict, j_idx>>
           ELSE IF geom_two_origin # NoPoint /\ ~close_enough(geom_two_origin, geom_one_origin)
           THEN Named /\ Abort(Fatal("origins do not coincide",
                                     {host.occ[joint.one].name, host.occ[joint.two].name,
                                      joint.name}))
                /\ UNCHANGED <<joints_dict, j_idx>>
           ELSE IF joint.jt \in {1, 2} /\ ~joint.limEnabled
           THEN Named /\ Abort(Raised("AssertionError")) /\ UNCHANGED <<joints_dict, j_idx>>
           ELSE Named /\ Store(JointInfo(name, parent, child, joint_type, geom_one_origin,
                                         m.axis, m.max, m.min))
    /\ UNCHANGED <<sceneVars, base_link, g_idx, matVars, buildVars, rendered, fileVars, mgrVars>>

(***************************************************************************)
(* Configurator._joints, second loop: one rigid group per step.            *)
(***************************************************************************)
\* the loop with parent_occ moved on every iteration: a chain
RECURSIVE GroupFrom_chain(_, _, _)
GroupFrom_chain(group, i, S) ==
    IF i > Len(group.occs) THEN S
    ELSE LET rigid_group_occ_name == rename_if_duplicate(group.name, Keys(S.jd))
             N1 == get_name(S.N, group.occs[i - 1])
             N2 == get_name(N1, group.occs[i])
         IN  GroupFrom_chain(group, i + 1,
                       [jd |-> Put(S.jd, rigid_group_occ_name,
                                   FixedJointInfo(rigid_group_occ_name, Returned(N1), Returned(N2))),
                        N |-> N2])

\* the state after the members i..n of the group have been enumerated
RECURSIVE GroupFrom(_, _, _)
GroupFrom(group, i, S) ==
    IF i > Len(group.occs) THEN S
    ELSE LET rigid_group_occ_name == rename_if_duplicate(group.name, Keys(S.jd))
             N1 == get_name(S.N, group.occs[1])
             N2 == get_name(N1, group.occs[i])
         IN  GroupFrom(group, i + 1,
                       [jd |-> Put(S.jd, rigid_group_occ_name,
                                   FixedJointInfo(rigid_group_occ_name, Returned(N1), Returned(N2))),
                        N |-> N2])

GroupStep ==
    /\ pc = "groups"
    /\ LET S == GroupFrom(host.groups[g_idx], 2, [jd |-> joints_dict, N |-> Naming])
       IN  /\ joints_dict' = S.jd
           /\ links_by_token' = S.N.tok
           /\ links_by_name' = S.N.nm
           /\ get_name_log' = S.N.log
    /\ g_idx' = g_idx + 1
    /\ pc' = AfterGroup(g_idx + 1)
    /\ UNCHANGED <<sceneVars, error, base_link, j_idx, matVars, buildVars, rendered, fileVars, mgrVars>>

(***************************************************************************)
(* Configurator._materials                                                 *)
(***************************************************************************)
Appearance(name, color) == [name |-> name, color |-> color]

FirstBodyAppearance(bodies) ==
    LET with == {i \in 1..Len(bodies) : bodies[i].app # NoAppearance}
    IN  IF with = {} THEN NoAppearance
        ELSE bodies[CHOOSE i \in with : \A k \in with : i <= k].app

\* __get_appearance: <<appearance name, colour>>, or <<NoName, None>> for (None, None)
get_appearance(occ) ==
    LET appearance ==
            IF occ.app # NoAppearance THEN occ.app
            ELSE IF Len(occ.bodies) > 0 THEN FirstBodyAppearance(occ.bodies)
            ELSE IF occ.mat # NoAppearance THEN occ.mat
            ELSE NoAppearance
    IN  IF appearance # NoAppearance /\ appearance.color # None
        THEN <<appearance.name, appearance.color>>
        ELSE <<NoName, None>>

RECURSIVE MaterialsFrom(_, _)
MaterialsFrom(i, S) ==
    IF i > Len(component_map) THEN S
    ELSE LET occ == component_map[i]
             prop == get_appearance(host.occ[occ])
             color_name == format_name(convert_german(prop[1]))
             N1 == get_name(S.N, occ)
             occ_name == Returned(N1)
         IN  MaterialsFrom(i + 1,
                [N  |-> N1,
                 cd |-> IF prop[2] # None THEN Put(S.cd, color_name, prop[2]) ELSE S.cd,
                 md |-> Put(S.md, format_name(occ_name),
                            [material |-> IF prop[2] # None THEN color_name
                                          ELSE <<"silver_default">>])])

_materials ==
    /\ pc = "materials"
    /\ LET S == MaterialsFrom(1, [N  |-> Naming,
                                  cd |-> Put(color_dict, <<"silver_default">>,
                                             "0.700 0.700 0.700 1.000"),
                                  md |-> material_dict])
       IN  /\ color_dict' = S.cd
           /\ material_dict' = S.md
           /\ links_by_token' = S.N.tok
           /\ links_by_name' = S.N.nm
           /\ get_name_log' = S.N.log
    /\ pc' = "build"
    /\ UNCHANGED <<sceneVars, error, base_link, jointVars, buildVars, rendered, fileVars, mgrVars>>

(***************************************************************************)
(* Configurator._build up to the kinematic loop (lines 573-620).           *)
(***************************************************************************)
AppendTo(d, key, x) == Put(d, key, Append(GetList(d, key), x))
Count(cnt, key) == IF key \in DOMAIN cnt THEN cnt[key] ELSE 0

\* f'{oc_name}_{body_name}_{count}'
unique_bodyname(oc_name, body_name, count) ==
    oc_name \o <<"_">> \o body_name \o <<"_">> \o Digits(count)

RECURSIVE BodiesFrom(_, _, _, _)
BodiesFrom(oc_name, body_lst, k, S) ==
    IF k > Len(body_lst) THEN S
    ELSE LET body == body_lst[k]
             body_name == format_name(body.name)
         IN  IF body.visible
             THEN BodiesFrom(oc_name, body_lst, k + 1,
                    [S EXCEPT !.bd = AppendTo(@, oc_name, body),
                              !.bdu = AppendTo(@, oc_name,
                                        unique_bodyname(oc_name, body_name,
                                                        Count(S.body_count, body_name))),
                              !.body_count = (body_name :> Count(S.body_count, body_name) + 1) @@ @])
             ELSE BodiesFrom(oc_name, body_lst, k + 1, S)

RECURSIVE OccBodiesFrom(_, _)
OccBodiesFrom(i, S) ==
    IF i > Len(component_map) THEN S
    ELSE LET oc == component_map[i]
             N1 == get_name(S.N, oc)
             oc_name == format_name(Returned(N1))
         IN  OccBodiesFrom(i + 1, BodiesFrom(oc_name, body_mapper[oc], 1, [S EXCEPT !.N = N1]))

\* occurrences[parent].append(joint_name); occurrences[child].append(joint_name)
RECURSIVE Adjacency(_, _)
Adjacency(i, occs) ==
    IF i > Len(joints_dict) THEN occs
    ELSE Adjacency(i + 1, AppendTo(AppendTo(occs, joints_dict[i].v.parent, joints_dict[i].k),
                                   joints_dict[i].v.child, joints_dict[i].k))

\* parts.Link as __add_link constructs it; origin is the URDF origin whose
\* inverse gives xyz and rpy
Link(name, urdf_origin, occ) ==
    [name |-> name, origin |-> urdf_origin, occ |-> occ, visible |-> host.occ[occ].visible,
     xyz |-> [i \in 1..3 |-> Times(invert(urdf_origin).trans[i], scale)],
     rpy |-> invert(urdf_origin).rot, mass |-> _get_inertia(occ).mass]

\* __add_link on S = [N, links, log] with the pose table lo
add_link(S, occ, lo) ==
    LET N1 == get_name(S.N, occ)
        name == Returned(N1)
        link == Link(name, Get(lo, N1.tok[occ]), occ)
    IN  [N |-> N1, links |-> Put(S.links, link.name, link), log |-> Append(S.log, name)]

BuildBodies ==
    /\ pc = "build"
    /\ LET B == OccBodiesFrom(1, [N |-> Naming, bd |-> <<>>, bdu |-> <<>>,
                                  body_count |-> EmptyFn])
           lo == Put(<<>>, <<"base_link">>, transform2(base_link))
           A == add_link([N |-> B.N, links |-> links, log |-> add_link_log], base_link, lo)
       IN  /\ body_dict' = B.bd
           /\ body_dict_urdf' = B.bdu
           /\ link_origins' = lo
           /\ links' = A.links
           /\ add_link_log' = A.log
           /\ links_by_token' = A.N.tok
           /\ links_by_name' = A.N.nm
           /\ get_name_log' = A.N.log
    /\ occurrences' = Adjacency(1, <<>>)
    /\ grounded_occ' = {<<"base_link">>}
    /\ boundary' = {<<"base_link">>}
    /\ new_boundary' = {}
    /\ bfs_todo' = {<<"base_link">>}
    /\ bfs_cur' = NoName
    /\ bfs_idx' = 1
    /\ pc' = "bfs"
    /\ UNCHANGED <<sceneVars, error, base_link, jointVars, matVars, joints, rendered, fileVars, mgrVars>>

(***************************************************************************)
(* Configurator._build, the kinematic loop (lines 621-676).                *)
(***************************************************************************)
\* lines 655-664: xyz and rpy of child_origin in the frame of parent_origin
xyz(parent_origin, child_origin) ==
    LET ct == transformBy(child_origin, invert(parent_origin))
    IN  [i \in 1..3 |-> Times(ct.trans[i], scale)]
rpy(parent_origin, child_origin) == transformBy(child_origin, invert(parent_origin)).rot

\* parts.Joint as _build constructs it
\* the entity with the declared direction of the record
Joint_declared(joint, parent_origin, child_origin, occ_name, child_name) ==
    [name |-> joint.name, type |-> joint.type,
     xyz |-> xyz(parent_origin, child_origin), rpy |-> rpy(parent_origin, child_origin),
     axis |-> joint.axis, parent |-> joint.parent, child |-> joint.child,
     upper_limit |-> joint.upper_limit, lower_limit |-> joint.lower_limit]
Joint(joint, parent_origin, child_origin, occ_name, child_name) ==
    [name |-> joint.name, type |-> joint.type,
     xyz |-> xyz(parent_origin, child_origin), rpy |-> rpy(parent_origin, child_origin),
     axis |-> joint.axis, parent |-> occ_name, child |-> child_name,
     upper_limit |-> joint.upper_limit, lower_limit |-> joint.lower_limit]

BfsOccDone == bfs_cur = NoName \/ bfs_idx > Len(GetList(occurrences, bfs_cur))

\* for occ_name in boundary: the loop takes the next member, in any order
BfsPick ==
    /\ pc = "bfs"
    /\ BfsOccDone
    /\ \E occ_name \in bfs_todo :
          /\ bfs_cur' = occ_name
          /\ bfs_todo' = bfs_todo \ {occ_name}
    /\ bfs_idx' = 1
    /\ UNCHANGED <<sceneVars, pc, error, base_link, nameVars, jointVars, matVars,
                   body_dict, body_dict_urdf, link_origins, links, joints, occurrences,
                   grounded_occ, boundary, new_boundary, add_link_log, rendered, fileVars, mgrVars>>

\* the loop body without the test of the child against grounded_occ
Neighbour_regrounding(joint, occ_name, grounded) ==
    IF joint.parent = occ_name
    THEN joint.child
    ELSE IF joint.parent \notin grounded THEN joint.parent ELSE NoName
\* the neighbour the loop body discovers through joint from occ_name, if any
Neighbour(joint, occ_name, grounded) ==
    IF joint.parent = occ_name
    THEN IF joint.child \in grounded THEN NoName ELSE joint.child
    ELSE IF joint.parent \notin grounded THEN joint.parent ELSE NoName

\* the pose of a non-fixed joint's child without the axes of the CAD transform
ChildOrigin_unrotated(joint, child_name) ==
    LET child_origin == transform2(links_by_name[child_name])
    IN  IF joint.type # "fixed"
        THEN [rot |-> 0, trans |-> joint.origin]
        ELSE child_origin
\* lines 640-648
ChildOrigin(joint, child_name) ==
    LET child_origin == transform2(links_by_name[child_name])
    IN  IF joint.type # "fixed"
        THEN [child_origin EXCEPT !.trans = joint.origin]
        ELSE child_origin

\* for joint_name in occurrences[occ_name]: one joint per step
BfsJoint ==
    /\ pc = "bfs"
    /\ bfs_cur # NoName
    /\ bfs_idx <= Len(GetList(occurrences, bfs_cur))
    /\ LET occ_name == bfs_cur
           joint == Get(joints_dict, GetList(occurrences, occ_name)[bfs_idx])
           child_name == Neighbour(joint, occ_name, grounded_occ)
           child_origin == ChildOrigin(joint, child_name)
           parent_origin == Get(link_origins, occ_name)
           lo == Put(link_origins, child_name, child_origin)
           A == add_link([N |-> Naming, links |-> links, log |-> add_link_log],
                         links_by_name[child_name], lo)
       IN  IF child_name = NoName
           THEN UNCHANGED <<new_boundary, link_origins, joints, links, add_link_log, nameVars>>
           ELSE /\ new_boundary' = new_boundary \cup {child_name}
                /\ link_origins' = lo
                /\ joints' = Put(joints, joint.name,
                                 Joint(joint, parent_origin, child_origin, occ_name, child_name))
                /\ links' = A.links
                /\ add_link_log' = A.log
                /\ links_by_token' = A.N.tok
                /\ links_by_name' = A.N.nm
                /\ get_name_log' = A.N.log
    /\ bfs_idx' = bfs_idx + 1
    /\ UNCHANGED <<sceneVars, pc, error, base_link, jointVars, matVars, body_dict,
                   body_dict_urdf, occurrences, grounded_occ, boundary, bfs_todo, bfs_cur,
                   rendered, fileVars, mgrVars>>

\* lines 675-676 and the test of the while loop
BfsPassEnd ==
    /\ pc = "bfs"
    /\ BfsOccDone
    /\ bfs_todo = {}
    /\ grounded_occ' = grounded_occ \cup new_boundary
    /\ boundary' = new_boundary
    /\ bfs_todo' = new_boundary
    /\ new_boundary' = {}
    /\ bfs_cur' = NoName
    /\ bfs_idx' = 1
    /\ pc' = IF new_boundary = {} THEN "check" ELSE "bfs"
    /\ UNCHANGED <<sceneVars, error, base_link, nameVars, jointVars, matVars, body_dict,
                   body_dict_urdf, link_origins, links, joints, occurrences, add_link_log,
                   rendered, fileVars, mgrVars>>

(***************************************************************************)
(* Configurator._build, the sanity check (lines 678-693); parse() returns. *)
(***************************************************************************)
\* self.name: the first word of the root component's name
name == host.rootName

Checked(component) ==
    host.occ[component].visible /\ Has(body_dict, name)
not_in_joints ==
    {host.occ[c].name : c \in {c \in Tokens : Checked(c) /\ c \notin DOMAIN links_by_token}}
unreachable ==
    {host.occ[c].name : c \in {c \in Tokens : /\ Checked(c)
                                                /\ c \in DOMAIN links_by_token
                                                /\ links_by_token[c] \notin grounded_occ}}

SanityCheck ==
    /\ pc = "check"
    /\ IF not_in_joints # {} \/ unreachable # {}
       THEN Abort(Fatal("not all components were included", not_in_joints \cup unreachable))
       ELSE pc' = "done" /\ UNCHANGED error
    /\ UNCHANGED <<sceneVars, base_link, nameVars, jointVars, matVars, buildVars, rendered, fileVars, mgrVars>>

(***************************************************************************)
(* parts.Joint.joint_xml and parts.Link.link_xml: the property getters,    *)
(* read on the entities of a finished run.  A text is kept as the sequence *)
(* of its elements (empty for the empty string), each a record of what it  *)
(* holds; an absent child element is an empty sequence.                    *)
(***************************************************************************)
\* the Joint object after the getter ran
\* the getter with self.child assigned from self.parent
joint_after_xml_swapped(j) ==
    [j EXCEPT !.parent = format_name(j.parent), !.child = format_name(j.parent)]
joint_after_xml(j) == [j EXCEPT !.parent = format_name(j.parent), !.child = format_name(j.child)]
\* the getter with an axis and a limit for every kind but fixed
joint_xml_nonfixed(j) ==
    [tag |-> "joint", name |-> format_name(j.name), type |-> j.type,
     origin |-> [xyz |-> j.xyz, rpy |-> j.rpy],
     parent |-> format_name(j.parent), child |-> format_name(j.child),
     axis |-> IF j.type # "fixed" THEN <<j.axis>> ELSE <<>>,
     limit |-> IF j.type # "fixed"
               THEN <<[upper |-> j.upper_limit, lower |-> j.lower_limit,
                       effort |-> "100.0", velocity |-> "100.0"]>>
               ELSE <<>>]
joint_xml(j) ==
    [tag |-> "joint", name |-> format_name(j.name), type |-> j.type, origin |-> [xyz |-> j.xyz, rpy |-> j.rpy],
     parent |-> format_name(j.parent), child |-> format_name(j.child),
     axis |-> IF j.type \in {"revolute", "continuous", "prismatic"} THEN <<j.axis>> ELSE <<>>,
     limit |-> IF j.type \in {"revolute", "prismatic"}
               THEN <<[upper |-> j.upper_limit, lower |-> j.lower_limit,
                       effort |-> "100.0", velocity |-> "100.0"]>>
               ELSE <<>>]

link_after_xml(l) == [l EXCEPT !.name = format_name(l.name)]
MeshRef(file, material) == [filename |-> format_name(file), material |-> material]
link_xml(l) ==
    LET self_name == format_name(l.name)
        bodies == Get(body_dict_urdf, self_name)
    IN  IF ~Has(body_dict_urdf, self_name) THEN <<>>
        ELSE <<[tag |-> "link", name |-> self_name, origin |-> [xyz |-> l.xyz, rpy |-> l.rpy],
              inertial |-> [rpy |-> l.rpy, mass |-> l.mass],
              visual |-> IF host.sub_mesh
                         THEN [i \in 1..Len(bodies) |-> MeshRef(bodies[i], <<"silver">>)]
                         ELSE IF l.visible
                         THEN <<MeshRef(self_name, Get(material_dict, self_name).material)>>
                         ELSE <<>>,
              collision |-> IF host.sub_mesh
                            THEN [i \in 1..Len(bodies) |-> MeshRef(bodies[i], NoName)]
                            ELSE IF l.visible THEN <<MeshRef(self_name, NoName)>>
                            ELSE <<>>]>>

\* the texts an entity has rendered since it was first read
Record(ent, text) ==
    IF rendered.ent = ent
    THEN [rendered EXCEPT !.texts = Append(@, text)]
    ELSE [ent |-> ent, texts |-> <<text>>]
MayRender(ent) == rendered.ent # ent \/ Len(rendered.texts) < MaxRenders

RenderJoint ==
    /\ pc = "done"
    /\ \E i \in 1..Len(joints) :
          /\ MayRender(<<"joint", joints[i].k>>)
          /\ rendered' = Record(<<"joint", joints[i].k>>, joint_xml(joints[i].v))
          /\ joints' = [joints EXCEPT ![i].v = joint_after_xml(@)]
    /\ UNCHANGED <<sceneVars, pc, error, base_link, nameVars, jointVars, matVars, body_dict,
                   body_dict_urdf, link_origins, links, occurrences, grounded_occ, boundary,
                   new_boundary, bfs_todo, bfs_cur, bfs_idx, add_link_log, fileVars,
                   mgrVars>>

RenderLink ==
    /\ pc = "done"
    /\ \E i \in 1..Len(links) :
          /\ MayRender(<<"link", links[i].k>>)
          /\ rendered' = Record(<<"link", links[i].k>>, link_xml(links[i].v))
          /\ links' = [links EXCEPT ![i].v = link_after_xml(@)]
    /\ UNCHANGED <<sceneVars, pc, error, base_link, nameVars, jointVars, matVars, body_dict,
                   body_dict_urdf, link_origins, joints, occurrences, grounded_occ, boundary,
                   new_boundary, bfs_todo, bfs_cur, bfs_idx, add_link_log, fileVars,
                   mgrVars>>

(***************************************************************************)
(* io.Writer.write_urdf, called by Manager.run after parse(): the file is  *)
(* the sequence of the pieces written to it, each with the text it holds.  *)
(***************************************************************************)
Written(part, text) == [part |-> part, text |-> text]
\* Writer.write_link
write_link(ls) == [i \in 1..Len(ls) |-> Written("link", link_xml(ls[i].v))]
\* Writer.write_joint
write_joint(js) == [i \in 1..Len(js) |-> Written("joint", <<joint_xml(js[i].v)>>)]
\* lines 190-195
dummy_link(child) ==
    << Written("dummy_link", <<[name |-> <<"dummy_link">>]>>),
       Written("dummy_link_joint", <<[name |-> <<"dummy_link_joint">>, type |-> "fixed",
                                      parent |-> <<"dummy_link">>, child |-> child]>>) >>
\* the file with the entities ahead of the dummy link, joints first
urdf_text_joints_first(robot, child, ls, js) ==
    << Written("xml", <<>>), Written("robot", <<robot>>), Written("include", <<robot>>) >>
        \o write_joint(js) \o write_link(ls) \o dummy_link(child) \o <<Written("end", <<>>)>>
\* lines 181-200
urdf_text(robot, child, ls, js) ==
    << Written("xml", <<>>), Written("robot", <<robot>>), Written("include", <<robot>>) >>
        \o dummy_link(child) \o write_link(ls) \o write_joint(js) \o <<Written("end", <<>>)>>
\* Writer.write_materials_xacro
write_materials_xacro(robot, cd) ==
    << Written("xml", <<>>), Written("robot", <<robot>>) >>
        \o [i \in 1..Len(cd) |-> Written("material", <<[name |-> cd[i].k, rgba |-> cd[i].v]>>)]
        \o <<Written("end", <<>>)>>

write_urdf ==
    /\ pc = "done"
    /\ LET N1 == get_name(Naming, base_link)
       IN  /\ writer_f' = urdf_text(name, Returned(N1), links, joints)
           /\ links_by_token' = N1.tok
           /\ links_by_name' = N1.nm
           /\ get_name_log' = N1.log
    /\ links' = [i \in 1..Len(links) |-> [links[i] EXCEPT !.v = link_after_xml(@)]]
    /\ joints' = [i \in 1..Len(joints) |-> [joints[i] EXCEPT !.v = joint_after_xml(@)]]
    /\ materials_f' = write_materials_xacro(name, color_dict)
    /\ pc' = "written"
    /\ UNCHANGED <<sceneVars, error, base_link, jointVars, matVars, body_dict, body_dict_urdf,
                   link_origins, occurrences, grounded_occ, boundary, new_boundary, bfs_todo,
                   bfs_cur, bfs_idx, add_link_log, rendered, meshes_f, mgrVars>>

(***************************************************************************)
(* io.visible_to_stl (lines 50-88): the mesh files that are saved, each    *)
(* with the kind of export that made it.                                   *)
(***************************************************************************)
Saved(kind, file) == [kind |-> kind, file |-> file]
isLightBulbOn(oc) == host.occ[oc].visible
\* lines 51-58: the shown ones of root.allOccurrences, in the order of the host
visible_components == SelectSeq(Iota(Len(host.occ)), isLightBulbOn)
\* lines 75-87: one file per visible body of the occurrence
RECURSIVE body_exporter(_, _, _, _)
body_exporter(occName, bodies, k, S) ==
    IF k > Len(bodies) THEN S
    ELSE LET body == bodies[k]
             body_name == format_name(body.name)
         IN  IF body.visible
             THEN body_exporter(occName, bodies, k + 1,
                    [files |-> Append(S.files,
                                 Saved("body", unique_bodyname(occName, body_name,
                                                               Count(S.body_count, body_name)))),
                     body_count |-> (body_name :> Count(S.body_count, body_name) + 1)
                                        @@ S.body_count])
             ELSE body_exporter(occName, bodies, k + 1, S)
\* lines 63-87: the loop over the visible occurrences
RECURSIVE component_exporter(_, _, _, _, _)
component_exporter(sub_mesh, mapper, name_mapper, i, S) ==
    IF i > Len(visible_components) THEN S
    ELSE LET oc == visible_components[i]
             occName == format_name(name_mapper[oc])
             S1 == [S EXCEPT !.files = Append(@, Saved("component", occName))]
         IN  IF mapper[oc] = <<>>
             THEN component_exporter(sub_mesh, mapper, name_mapper, i + 1, S)
             ELSE component_exporter(sub_mesh, mapper, name_mapper, i + 1,
                    IF sub_mesh THEN body_exporter(occName, mapper[oc], 1, S1) ELSE S1)

visible_to_stl ==
    /\ pc = "written"
    /\ meshes_f' = component_exporter(host.sub_mesh, body_mapper, links_by_token, 1,
                                      [files |-> <<>>, body_count |-> EmptyFn]).files
    /\ pc' = "exported"
    /\ UNCHANGED <<sceneVars, error, base_link, nameVars, jointVars, matVars, buildVars,
                   rendered, writer_f, materials_f, mgrVars>>

Next ==
    \/ get_scene_configuration
    \/ _base
    \/ JointStep
    \/ GroupStep
    \/ _materials
    \/ BuildBodies
    \/ BfsPick
    \/ BfsJoint
    \/ BfsPassEnd
    \/ SanityCheck
    \/ RenderJoint
    \/ RenderLink
    \/ write_urdf
    \/ visible_to_stl

Spec == Init /\ [][Next]_vars

SpecManager == InitManager /\ [][NextManager]_vars

(***************************************************************************)
(* Graphs used to state the properties.                                    *)
(***************************************************************************)
\* the nodes joined to S by a path of the undirected edges E
RECURSIVE Closure(_, _)
Closure(S, E) ==
    LET step == S \cup {e[2] : e \in {e \in E : e[1] \in S}}
                  \cup {e[1] : e \in {e \in E : e[2] \in S}}
    IN  IF step = S THEN S ELSE Closure(step, E)

RecordEdges == {<<joints_dict[i].v.parent, joints_dict[i].v.child>> : i \in 1..Len(joints_dict)}
ReachableNames == Closure({<<"base_link">>}, RecordEdges)

HostEdges ==
    {<<host.joints[i].one, host.joints[i].two>> :
        i \in {i \in 1..Len(host.joints) :
                 host.joints[i].health = "healthy" /\ ~host.joints[i].stale}}
    \cup UNION {{<<host.groups[g].occs[1], host.groups[g].occs[k]>> :
                    k \in 2..Len(host.groups[g].occs)} : g \in 1..Len(host.groups)}

GroundedTokens == {t \in Tokens : host.occ[t].grounded}
CountIn(log, x) == Cardinality({i \in 1..Len(log) : log[i] = x})

(***************************************************************************)
(* C1: after a successful parse() of an assembly with exactly one grounded *)
(* occurrence and a connected joint graph, every occurrence reachable from *)
(* base_link through the joint records has had __add_link run exactly once *)
(* for it, and the names of the links are exactly the reachable names.     *)
(***************************************************************************)
C1_Connected == \A t \in Tokens : t \in DOMAIN links_by_token /\ links_by_token[t] \in ReachableNames
C1_LinkOncePerReachable ==
    (pc = "done" /\ Cardinality(GroundedTokens) = 1 /\ C1_Connected)
        => /\ \A n \in ReachableNames : CountIn(add_link_log, n) = 1
           /\ Keys(links) = ReachableNames

(***************************************************************************)
(* C2: with a grounded root, a visible occurrence that owns a visible body *)
(* and is joined to base_link by no joint or rigid group keeps the run     *)
(* from completing, and the final error lists its name.                    *)
(***************************************************************************)
C2_Isolated(t) ==
    /\ host.occ[t].visible
    /\ \E k \in 1..Len(host.occ[t].bodies) : host.occ[t].bodies[k].visible
    /\ t \notin Closure({base_link}, HostEdges)
C2_DisconnectedFails ==
    \A t \in Tokens :
        (base_link # NoToken /\ C2_Isolated(t))
            => /\ pc # "done"
               /\ (pc = "aborted" /\ error.tag = "not all components were included")
                     => host.occ[t].name \in error.names

(***************************************************************************)
(* C3: when a joint is emitted for a record whose declared child is        *)
(* grounded while its declared parent is not, the entity has the declared  *)
(* child as parent and the declared parent as child; when the declared     *)
(* parent is the grounded one, the entity keeps the declared direction.    *)
(***************************************************************************)
C3_Emitted(i) == i > Len(joints) \/ joints'[i] # joints[i]
C3_Step ==
    pc = "bfs" =>
        \A i \in 1..Len(joints') :
            C3_Emitted(i) =>
                LET e == joints'[i].v
                    r == Get(joints_dict, joints'[i].k)
                IN  /\ (r.child \in grounded_occ /\ r.parent \notin grounded_occ)
                          => (e.parent = r.child /\ e.child = r.parent)
                    /\ (r.parent \in grounded_occ /\ r.child \notin grounded_occ)
                          => (e.parent = r.parent /\ e.child = r.child)
C3_SwappedDirection == [][C3_Step]_vars
\* a record was emitted against its declared direction
C3_Witness ==
    /\ pc = "check"
    /\ \E i \in 1..Len(joints) :
          LET r == Get(joints_dict, joints[i].k)
          IN  r.parent # r.child /\ joints[i].v.parent = r.child /\ joints[i].v.child = r.parent

(***************************************************************************)
(* C4: a rigid group of n >= 2 occurrences adds exactly n-1 records, all   *)
(* fixed, all with the first occurrence as parent, with the 2nd..nth       *)
(* occurrence as child in that order, under pairwise distinct names that   *)
(* start with the group name, and leaves the earlier records as they were. *)
(***************************************************************************)
StartsWith(s, prefix) == Len(s) >= Len(prefix) /\ SubSeq(s, 1, Len(prefix)) = prefix
C4_Step ==
    (pc = "groups" /\ g_idx' = g_idx + 1) =>
        LET group == host.groups[g_idx]
            n == Len(group.occs)
            old == Len(joints_dict)
        IN  n >= 2 =>
              /\ Len(joints_dict') = old + n - 1
              /\ \A i \in 1..old : joints_dict'[i] = joints_dict[i]
              /\ \A k \in 2..n :
                    LET info == joints_dict'[old + k - 1].v
                    IN  /\ info.type = "fixed"
                        /\ info.name = joints_dict'[old + k - 1].k
                        /\ info.parent = links_by_token'[group.occs[1]]
                        /\ info.child = links_by_token'[group.occs[k]]
                        /\ StartsWith(info.name, group.name)
              /\ Cardinality(Keys(joints_dict')) = Len(joints_dict')
C4_RigidGroupRecords == [][C4_Step]_vars
\* a group of three was added after joints that already carry its name
C4_Witness ==
    /\ pc = "materials"
    /\ Len(host.groups) = 1 /\ Len(host.groups[1].occs) = 3
    /\ Len(host.joints) = 2
    /\ Len(joints_dict) = 4

(***************************************************************************)
(* C5: no two occurrence identities carry the same link name, base_link    *)
(* included, and every joint or rigid-group record that was registered is  *)
(* stored under a name of its own.                                         *)
(***************************************************************************)
RegisteredJoints ==
    Cardinality({i \in 1..(j_idx - 1) :
                    host.joints[i].health = "healthy" /\ ~host.joints[i].stale})
RECURSIVE RegisteredGroupRecords(_)
RegisteredGroupRecords(g) ==
    IF g = 0 THEN 0
    ELSE RegisteredGroupRecords(g - 1)
            + (IF Len(host.groups[g].occs) >= 1 THEN Len(host.groups[g].occs) - 1 ELSE 0)
C5_UniqueNames ==
    /\ \A t1, t2 \in DOMAIN links_by_token :
          links_by_token[t1] = links_by_token[t2] => t1 = t2
    /\ Len(joints_dict) = RegisteredJoints + RegisteredGroupRecords(g_idx - 1)
    /\ Cardinality(Keys(joints_dict)) = Len(joints_dict)
\* two occurrences and two joints with one display name each, all registered
C5_Witness ==
    /\ pc = "done"
    /\ \E t1, t2 \in DOMAIN links_by_token :
          t1 # t2 /\ host.occ[t1].name = host.occ[t2].name
    /\ \E i, k \in 1..Len(host.joints) : i # k /\ host.joints[i].name = host.joints[k].name
    /\ Len(host.groups) = 1

(***************************************************************************)
(* C6: the mesh names <occurrence>_<body>_<counter> that _build records    *)
(* are pairwise distinct over all visible bodies of all occurrences.       *)
(***************************************************************************)
MeshNameSlots ==
    UNION {{<<i, k>> : k \in 1..Len(body_dict_urdf[i].v)} : i \in 1..Len(body_dict_urdf)}
C6_MeshNamesDistinct ==
    \A s1, s2 \in MeshNameSlots :
        body_dict_urdf[s1[1]].v[s1[2]] = body_dict_urdf[s2[1]].v[s2[2]] => s1 = s2

(***************************************************************************)
(* C7: every get_name call on a token returns the name the first call on   *)
(* that token returned, whatever was named in between, and a repeated call *)
(* adds nothing to links_by_token or links_by_name.                        *)
(***************************************************************************)
LoggedTokens == {get_name_log[i].token : i \in 1..Len(get_name_log)}
C7_GetNameIdempotent ==
    /\ \A i, k \in 1..Len(get_name_log) :
          get_name_log[i].token = get_name_log[k].token
              => get_name_log[i].name = get_name_log[k].name
    /\ \A i \in 1..Len(get_name_log) :
          links_by_token[get_name_log[i].token] = get_name_log[i].name
    /\ DOMAIN links_by_token = LoggedTokens \cup ({base_link} \ {NoToken})
    /\ Cardinality(DOMAIN links_by_name) = Cardinality(DOMAIN links_by_token)
\* a token was named, another one was named for the first time, and the
\* first token was asked for again
C7_Witness ==
    \E i, m, k \in 1..Len(get_name_log) :
        /\ i < m /\ m < k
        /\ get_name_log[i].token = get_name_log[k].token
        /\ get_name_log[m].token # get_name_log[i].token
        /\ \A x \in 1..(m - 1) : get_name_log[x].token # get_name_log[m].token
        /\ host.occ[get_name_log[m].token].name = host.occ[get_name_log[i].token].name

(***************************************************************************)
(* C8: the texts one entity renders are all the same text.                 *)
(***************************************************************************)
C8_RenderIdempotent ==
    \A i, k \in 1..Len(rendered.texts) : rendered.texts[i] = rendered.texts[k]
\* a joint whose parent name format_name rewrites was rendered twice
C8_Witness ==
    /\ Len(rendered.texts) >= 2
    /\ rendered.ent[1] = "joint"
    /\ LET r == Get(joints_dict, rendered.ent[2])
       IN  format_name(r.parent) # r.parent \/ format_name(r.child) # r.child

(***************************************************************************)
(* C9: without a grounded occurrence the run is aborted in _base and holds *)
(* no link and no joint; otherwise base_link is the first occurrence of    *)
(* the scan that is grounded, and both name maps know it as base_link.     *)
(***************************************************************************)
C9_FirstInScan(t) ==
    \E i \in 1..Len(host.scan) :
        /\ host.scan[i] = t
        /\ host.occ[t].grounded
        /\ \A k \in 1..(i - 1) : ~host.occ[host.scan[k]].grounded
C9_BaseLink ==
    (pc \notin {"start", "base"} /\ Tokens # {}) =>
        IF GroundedTokens = {}
        THEN /\ pc = "aborted" /\ error.kind = "exit"
             /\ base_link = NoToken
             /\ links = <<>> /\ joints = <<>> /\ joints_dict = <<>>
        ELSE /\ C9_FirstInScan(base_link)
             /\ links_by_token[base_link] = <<"base_link">>
             /\ links_by_name[<<"base_link">>] = base_link
\* several grounded occurrences, and the scan did not start at the first token
C9_Witness ==
    /\ pc = "done"
    /\ Cardinality(GroundedTokens) >= 2
    /\ base_link # 1 /\ 1 \in GroundedTokens

(***************************************************************************)
(* C10: a non-fixed joint with an origin on both sides is accepted when    *)
(* every coordinate of the two origins differs by less than 1e-7 divided   *)
(* by the unit scale, and otherwise the run is aborted with a fatal error  *)
(* that names both occurrences; a fixed joint is never checked.            *)
(***************************************************************************)
\* |a - b| < 1e-7 / (doc_u / tar_u), coordinate by coordinate
C10_Tolerance == (1000 * UnitMm(host.targetUnits)) \div UnitMm(host.docUnits)
C10_Within(a, b) == \A i \in 1..3 : Abs(a[i] - b[i]) < C10_Tolerance
C10_Checked(j) == j.health = "healthy" /\ ~j.stale /\ j.jt # 0 /\ Len(j.o1) = 3 /\ Len(j.o2) = 3
C10_Rejected == pc = "aborted" /\ error.tag = "origins do not coincide"
C10_Pair(j, a, b) == (j.o1 = a /\ j.o2 = b) \/ (j.o1 = b /\ j.o2 = a)
C10_Rule ==
    /\ C10_Rejected =>
          LET j == host.joints[j_idx]
          IN  /\ C10_Checked(j)
              /\ ~C10_Within(j.o1, j.o2)
              /\ error.kind = "fatal"
              /\ {host.occ[j.one].name, host.occ[j.two].name} \subseteq error.names
    /\ \A i \in 1..(j_idx - 1) :
          C10_Checked(host.joints[i]) => C10_Within(host.joints[i].o1, host.joints[i].o2)
\* the claim as it stands: (0,0,0) and (0,0,1e-9) are accepted, (0,0,0) and
\* (0,0,0.01) are rejected, whatever the units
C10_Original ==
    /\ C10_Rule
    /\ C10_Rejected => ~C10_Pair(host.joints[j_idx], <<0, 0, 0>>, <<0, 0, 10>>)
    /\ \A i \in 1..(j_idx - 1) :
          C10_Checked(host.joints[i]) => ~C10_Pair(host.joints[i], <<0, 0, 0>>, <<0, 0, 100000000>>)
\* amended: (0,0,0) and (0,0,1e-9) are accepted when the scale is at most 10
\* and rejected when it is 100 or 1000 (document unit m, target unit cm or mm)
C10_Coincidence ==
    /\ C10_Rule
    /\ (C10_Rejected /\ C10_Pair(host.joints[j_idx], <<0, 0, 0>>, <<0, 0, 10>>))
          => UnitMm(host.docUnits) >= 100 * UnitMm(host.targetUnits)
    /\ \A i \in 1..(j_idx - 1) :
          C10_Checked(host.joints[i]) =>
              /\ ~C10_Pair(host.joints[i], <<0, 0, 0>>, <<0, 0, 100000000>>)
              /\ C10_Pair(host.joints[i], <<0, 0, 0>>, <<0, 0, 10>>)
                    => UnitMm(host.docUnits) <= 10 * UnitMm(host.targetUnits)
\* a non-fixed joint with origins (0,0,0) and (0,0,1e-9) was accepted
C10_Witness ==
    /\ pc = "done"
    /\ Len(host.joints) = 1
    /\ C10_Checked(host.joints[1])
    /\ C10_Pair(host.joints[1], <<0, 0, 0>>, <<0, 0, 10>>)
    /\ Len(joints_dict) = 1 /\ joints_dict[1].v.origin = host.joints[1].o1

(***************************************************************************)
(* C11: a side whose origin fails to resolve is read as a side without an  *)
(* origin and the loop goes on; the run is aborted for a missing origin    *)
(* only when the joint is not fixed and its first side has none.           *)
(***************************************************************************)
C11_Live(j) == j.health = "healthy" /\ ~j.stale
\* the run ended inside the loop over the joints, for another reason than
\* two origins that do not coincide or limits that are not enabled
C11_InJoints ==
    /\ pc = "aborted" /\ error.kind # "exit" /\ j_idx <= Len(host.joints)
    /\ error.tag # "origins do not coincide"
    /\ error # Raised("AssertionError")
C11_Stored(i) ==
    \E k \in 1..Len(joints_dict) :
        /\ joints_dict[k].k = host.joints[i].name
        /\ joints_dict[k].v.type = joint_type_list[host.joints[i].jt + 1]
C12_Dormant(j) == j.health \in {"suppressed", "rolledback"}
C12_Processed(P(_)) == Cardinality({i \in 1..(j_idx - 1) : P(host.joints[i])})
C12_HealthStates ==
    /\ (pc = "aborted" /\ error.kind # "exit" /\ j_idx <= Len(host.joints)) =>
          LET j == host.joints[j_idx]
          IN  /\ ~C12_Dormant(j)
              /\ j.health # "healthy" <=> error = Fatal("unexpected health state", {j.name})
    /\ \A i \in 1..(j_idx - 1) : host.joints[i].health \in {"healthy", "suppressed", "rolledback"}
    /\ Len(joints_dict) - RegisteredGroupRecords(g_idx - 1) = C12_Processed(C11_Live)
\* a rolled back joint was passed over and the joint after it was recorded
C12_Witness ==
    /\ pc = "done"
    /\ Len(host.joints) = 2 /\ host.joints[1].health = "rolledback"
    /\ Keys(joints_dict) = {host.joints[2].name}

(***************************************************************************)
(* C13: the joints that are emitted and the final pose of every link are   *)
(* those of the run that visits each frontier in the order of the tokens,  *)
(* whatever order the run at hand has taken.                               *)
(***************************************************************************)
\* the joints of occ_name from position k on, with the grounded set G of the pass
RECURSIVE C13_Joints(_, _, _, _)
C13_Joints(occ_name, k, G, S) ==
    IF k > Len(GetList(occurrences, occ_name)) THEN S
    ELSE LET joint == Get(joints_dict, GetList(occurrences, occ_name)[k])
             child_name == Neighbour(joint, occ_name, G)
         IN  IF child_name = NoName THEN C13_Joints(occ_name, k + 1, G, S)
             ELSE C13_Joints(occ_name, k + 1, G,
                     [lo |-> Put(S.lo, child_name, ChildOrigin(joint, child_name)),
                      js |-> S.js \cup {<<joint.name, occ_name, child_name>>},
                      nb |-> S.nb \cup {child_name}])
\* the members of a frontier, lowest token first
RECURSIVE C13_Frontier(_, _, _)
C13_Frontier(todo, G, S) ==
    IF todo = {} THEN S
    ELSE LET occ_name == CHOOSE n \in todo :
                             \A m \in todo : links_by_name[n] <= links_by_name[m]
         IN  C13_Frontier(todo \ {occ_name}, G, C13_Joints(occ_name, 1, G, S))
RECURSIVE C13_Passes(_, _, _)
C13_Passes(front, G, S) ==
    IF front = {} THEN S
    ELSE LET S1 == C13_Frontier(front, G, [S EXCEPT !.nb = {}])
         IN  C13_Passes(S1.nb, G \cup S1.nb, S1)
C13_InTokenOrder ==
    C13_Passes({<<"base_link">>}, {<<"base_link">>},
               [lo |-> Put(<<>>, <<"base_link">>, transform2(base_link)), js |-> {}, nb |-> {}])
C13_Emitted == {<<joints[i].v.name, joints[i].v.parent, joints[i].v.child>> : i \in 1..Len(joints)}
C13_SameJoints == pc = "check" => C13_Emitted = C13_InTokenOrder.js
C14_Scaled(x, c) ==
    Dec(x.m, x.e + Log10(UnitMm(host.targetUnits))) = Dec(c, Log10(UnitMm(host.docUnits)))
C14_Emit ==
    pc = "bfs" =>
        \A i \in 1..Len(joints') :
            (i > Len(joints) \/ joints'[i] # joints[i]) =>
                LET e == joints'[i].v
                    c == transformBy(Get(link_origins', e.child),
                                     invert(Get(link_origins', e.parent))).trans
                IN  \A k \in 1..3 :
                        /\ C14_Scaled(e.xyz[k], c[k])
                        /\ (host.docUnits = "cm" /\ c[k] = 100) =>
                              /\ host.targetUnits = "m" => e.xyz[k] = [m |-> 1, e |-> 0]
                              /\ host.targetUnits = "mm" => e.xyz[k] = [m |-> 1, e |-> 3]
C14_Slide ==
    (pc = "joints" /\ Len(joints_dict') = Len(joints_dict) + 1) =>
        LET j == host.joints[j_idx]
            r == joints_dict'[Len(joints_dict')].v
        IN  j.jt = 2 =>
              /\ r.upper_limit * UnitMm(host.targetUnits) = j.hi * 10
              /\ r.lower_limit * UnitMm(host.targetUnits) = j.lo * 10
C14_UnitScale == [][C14_Emit /\ C14_Slide]_vars
\* document unit cm, target unit mm: a slider 100 away was emitted at 1000
C14_Witness ==
    /\ pc = "done"
    /\ host.docUnits = "cm" /\ host.targetUnits = "mm"
    /\ Len(joints) = 1
    /\ host.joints[1].jt = 2 /\ host.joints[1].hi = SlideLimit
    /\ [m |-> 1, e |-> 3] \in {joints[1].v.xyz[k] : k \in 1..3}

(***************************************************************************)
(* C15: the file write_urdf has written holds dummy_link once, then the    *)
(* fixed joint dummy_link_joint from dummy_link to the name of base_link,  *)
(* then one piece for every link and then one piece for every joint.       *)
(***************************************************************************)
C15_At(part) == {i \in 1..Len(writer_f) : writer_f[i].part = part}
C15_DummyFirst ==
    pc = "written" =>
        /\ Cardinality(C15_At("dummy_link")) = 1
        /\ Cardinality(C15_At("dummy_link_joint")) = 1
        /\ \A d \in C15_At("dummy_link"), dj \in C15_At("dummy_link_joint") :
              /\ d < dj
              /\ writer_f[dj].text[1].type = "fixed"
              /\ writer_f[dj].text[1].parent = writer_f[d].text[1].name
              /\ writer_f[dj].text[1].child = links_by_token[base_link]
              /\ \A i \in C15_At("link") \cup C15_At("joint") : dj < i
        /\ \A l \in C15_At("link"), j \in C15_At("joint") : l < j
        /\ Cardinality(C15_At("link")) = Len(links)
        /\ Cardinality(C15_At("joint")) = Len(joints)
\* a file with three links and two joints was written
C15_Witness ==
    /\ pc = "written"
    /\ Cardinality(C15_At("link")) = 3
    /\ Cardinality(C15_At("joint")) = 2

(***************************************************************************)
(* C16: a rendered joint of a kind that is not fixed holds an axis element *)
(* and a limit element with upper, lower and the default effort and        *)
(* velocity limits; a fixed joint holds neither.                           *)
(***************************************************************************)
C16_IsJoint(w) == w.part = "joint"
\* the joints of the written file, in the order of Configurator.joints
C16_Texts == [i \in 1..Len(joints) |-> SelectSeq(writer_f, C16_IsJoint)[i].text[1]]
C16_Limit(e) ==
    <<[upper |-> e.upper_limit, lower |-> e.lower_limit, effort |-> "100.0",
       velocity |-> "100.0"]>>
\* the claim as it stands: every kind but fixed
C16_Original ==
    pc = "written" =>
        \A i \in 1..Len(joints) :
            IF joints[i].v.type # "fixed"
            THEN C16_Texts[i].axis = <<joints[i].v.axis>> /\ C16_Texts[i].limit = C16_Limit(joints[i].v)
            ELSE C16_Texts[i].axis = <<>> /\ C16_Texts[i].limit = <<>>
\* amended: revolute and prismatic joints hold both elements; fixed joints
\* and the joints of the four other kinds hold neither
C16_AxisAndLimit ==
    pc = "written" =>
        \A i \in 1..Len(joints) :
            IF joints[i].v.type \in {"revolute", "prismatic"}
            THEN C16_Texts[i].axis = <<joints[i].v.axis>> /\ C16_Texts[i].limit = C16_Limit(joints[i].v)
            ELSE C16_Texts[i].axis = <<>> /\ C16_Texts[i].limit = <<>>
\* a ball joint was written
C16_Witness ==
    /\ pc = "written"
    /\ Len(joints) = 1 /\ joints[1].v.type = "Ball"
    /\ C16_Texts[1].type = "Ball" /\ C16_Texts[1].axis = <<>> /\ C16_Texts[1].limit = <<>>

(***************************************************************************)
(* C17: a link is written as the empty string when its name has no entry   *)
(* in the body table, which is when its occurrence owns no visible body,   *)
(* and as a link element with an inertial block otherwise; writing adds    *)
(* no entry to the body table.                                             *)
(***************************************************************************)
C17_IsLink(w) == w.part = "link"
\* the links of the written file, in the order of Configurator.links
C17_Texts == [i \in 1..Len(links) |-> SelectSeq(writer_f, C17_IsLink)[i].text]
C17_NonEmpty(t) == t # <<>> /\ t[1].tag = "link" /\ "inertial" \in DOMAIN t[1]
\* the table half of the claim
C17_EmptyIffNoEntry ==
    pc = "written" =>
        \A i \in 1..Len(links) :
            /\ C17_Texts[i] = <<>> <=> ~Has(body_dict_urdf, format_name(links[i].v.name))
            /\ C17_Texts[i] # <<>> => C17_NonEmpty(C17_Texts[i])
C17_EmptyIffNoBody ==
    pc = "written" =>
        \A i \in 1..Len(links) :
            /\ C17_Texts[i] = <<>> <=> ~Has(body_dict_urdf, format_name(links[i].v.name))
            /\ C17_Texts[i] = <<>> <=> body_mapper[links[i].v.occ] = <<>>
            /\ C17_Texts[i] # <<>> => C17_NonEmpty(C17_Texts[i])
C17_TableKept == (pc = "done" => body_dict_urdf' = body_dict_urdf) /\ C17_EmptyIffNoBody'
C17_LinkText == [][C17_TableKept]_vars

(***************************************************************************)
(* C18: with a configuration document, Manager is constructed when the     *)
(* document is a mapping whose keys all belong to the twelve known keys,   *)
(* and the construction fails with an error otherwise.                     *)
(***************************************************************************)
C18_Keys == {"RobotName", "SaveMesh", "SubMesh", "MeshResolution", "InertiaPrecision",
             "TargetUnits", "TargetPlatform", "NameMap", "MergeLinks", "Locations",
             "Extras", "Root"}
C18_WellFormed == configuration.kind = "dict" /\ configuration.keys \subseteq C18_Keys
\* the claim as it stands: the document alone decides
C18_Original ==
    (pc # "init" /\ configuration # NoDocument) =>
        IF C18_WellFormed
        THEN pc = "constructed" /\ manager.built /\ error = NoError
        ELSE pc = "aborted" /\ error.kind = "exception" /\ ~manager.built
\* amended: a document whose keys are all known is accepted when the length
\* unit of the CAD document is mm, cm or m; any other unit is an error first
C18_ClosedKeySet ==
    (pc # "init" /\ configuration # NoDocument) =>
        IF C18_WellFormed /\ host.docUnits \in {"mm", "cm", "m"}
        THEN pc = "constructed" /\ manager.built /\ error = NoError
        ELSE pc = "aborted" /\ error.kind = "exception" /\ ~manager.built
\* a document with all twelve keys was accepted
C18_Witness ==
    /\ pc = "constructed"
    /\ configuration.kind = "dict" /\ configuration.keys = C18_Keys
    /\ manager.name_map /\ manager.root_name

(***************************************************************************)
(* C19: the kinematic search terminates.                                   *)
(***************************************************************************)
\* occurrences that are not grounded yet
C19_Ungrounded == Cardinality(Tokens) - Cardinality(grounded_occ)
\* joints of the occurrence at hand that the inner loop has not visited yet
C19_Remaining ==
    IF BfsOccDone THEN 0 ELSE Len(GetList(occurrences, bfs_cur)) - bfs_idx + 1
\* more than the longest list of joints one occurrence can have
C19_Width == 2 * Len(joints_dict) + 1
\* what is left of the search, in lexicographic order: occurrences to ground,
\* members of the frontier to visit, joints of the member at hand
C19_Measure ==
    (C19_Ungrounded * (Cardinality(Tokens) + 1) + Cardinality(bfs_todo)) * C19_Width
        + C19_Remaining
\* the frontier is exhausted: the next step is the end of the pass
C19_PassEnds == pc = "bfs" /\ BfsOccDone /\ bfs_todo = {}
C19_Step ==
    /\ grounded_occ \subseteq grounded_occ'
    /\ C19_PassEnds =>
          \/ boundary' = {} /\ pc' = "check"
          \/ /\ boundary' # {}
             /\ boundary' \cap grounded_occ = {}
             /\ boundary' \subseteq grounded_occ'
    /\ pc = "bfs" =>
          /\ C19_Measure \in Nat
          /\ pc' = "bfs" => C19_Measure' < C19_Measure
\* C19: the search of _build terminates for every set of JointRecords, with
\* cycles, parallel joints and self-joints: the grounded set only grows, a
\* pass that ends either grounds an occurrence that was not grounded or
\* leaves an empty frontier and the loop, and every step of the search
\* decreases a natural number.
C19_Terminates == [][C19_Step]_vars
\* the search is over in an assembly with a self-joint and two joints between
\* the same two occurrences, and it grounded more than the base
C19_Witness ==
    /\ pc = "check"
    /\ Cardinality(grounded_occ) >= 2
    /\ \E i \in 1..Len(joints_dict) : joints_dict[i].v.parent = joints_dict[i].v.child
    /\ \E i, j \in 1..Len(joints_dict) :
          /\ i # j
          /\ joints_dict[i].v.parent # joints_dict[i].v.child
          /\ {joints_dict[i].v.parent, joints_dict[i].v.child}
               = {joints_dict[j].v.parent, joints_dict[j].v.child}

(***************************************************************************)
(* C20: the pose stored for a neighbour the search discovers.              *)
(***************************************************************************)
\* the joint the inner loop is at, and its end that is not the occurrence at hand
C20_Joint == Get(joints_dict, GetList(occurrences, bfs_cur)[bfs_idx])
C20_Other == IF C20_Joint.parent = bfs_cur THEN C20_Joint.child ELSE C20_Joint.parent
\* the next step of the search discovers a new neighbour
C20_Discovers == pc = "bfs" /\ ~BfsOccDone /\ C20_Other \notin grounded_occ
\* the transform of the occurrence in the CAD document
C20_Cad(n) == host.place[links_by_name[n]]
C20_Step ==
    C20_Discovers =>
        LET stored == Get(link_origins', C20_Other)
        IN  /\ Has(link_origins', C20_Other)
            /\ C20_Joint.type = "fixed" => stored = C20_Cad(C20_Other)
            /\ C20_Joint.type # "fixed" =>
                  /\ stored.trans = C20_Joint.origin
                  /\ stored.rot = C20_Cad(C20_Other).rot
            /\ host' = host
            /\ \A n \in Keys(link_origins) \ {C20_Other} :
                  Has(link_origins', n) /\ Get(link_origins', n) = Get(link_origins, n)
\* C20: when the search discovers a new neighbour, the pose stored for it is
\* the neighbour's CAD transform if the joint is fixed; if the joint is not
\* fixed, the translation is the joint's origin and the rotation is that of the
\* CAD transform.  The transforms of the CAD document and the poses stored
\* for the other links are unchanged.
C20_StoredPose == [][C20_Step]_vars
\* a neighbour behind a non-fixed joint is stored at the joint's origin, away
\* from its CAD position, with its CAD rotation, which is not the identity;
\* a neighbour behind a fixed joint is stored with its CAD transform
C20_Witness ==
    /\ pc = "check"
    /\ \E i \in 1..Len(joints) :
          LET j == joints[i].v
          IN  /\ j.type # "fixed"
              /\ Has(link_origins, j.child)
              /\ Get(link_origins, j.child).trans = Get(joints_dict, j.name).origin
              /\ Get(link_origins, j.child).trans # C20_Cad(j.child).trans
              /\ Get(link_origins, j.child).rot = C20_Cad(j.child).rot
              /\ C20_Cad(j.child).rot # 0
    /\ \E i \in 1..Len(joints) :
          LET j == joints[i].v
          IN  /\ j.type = "fixed"
              /\ Has(link_origins, j.child)
              /\ Get(link_origins, j.child) = C20_Cad(j.child)
              /\ C20_Cad(j.child).rot # 0

(***************************************************************************)
(* C21: the mass of a link is the mass of its occurrence without the       *)
(* hidden bodies of the whole subtree of the occurrence.                   *)
(***************************************************************************)
\* occurrence s is occurrence t or nested in it at any depth
RECURSIVE C21_Under(_, _)
C21_Under(s, t) == s = t \/ (host.occ[s].parent # 0 /\ C21_Under(host.occ[s].parent, t))
\* the bodies of the subtree of t
C21_Bodies(t) ==
    UNION {{<<s, k>> : k \in 1..Len(host.occ[s].bodies)} : s \in {s \in Tokens : C21_Under(s, t)}}
C21_Hidden(t) == {b \in C21_Bodies(t) : ~host.occ[b[1]].bodies[b[2]].visible}
RECURSIVE C21_Sum(_)
C21_Sum(S) ==
    IF S = {} THEN 0
    ELSE LET b == CHOOSE b \in S : TRUE
         IN  host.occ[b[1]].bodies[b[2]].mass + C21_Sum(S \ {b})
C21_Mass(l) == l.mass = host.occ[l.occ].mass - C21_Sum(C21_Hidden(l.occ))
C21_Flat(t) ==
    LET flat == get_flat_body(t)
    IN  /\ {flat[i] : i \in 1..Len(flat)} = C21_Bodies(t)
        /\ \A i, j \in 1..Len(flat) : flat[i] = flat[j] => i = j
\* C21: every link has the mass of its occurrence minus the mass of every
\* hidden body of the occurrence and of its descendants at any depth, and
\* get_flat_body of the occurrence is the bodies of that subtree, each once.
C21_SubtreeMass ==
    \A i \in 1..Len(links) : C21_Mass(links[i].v) /\ C21_Flat(links[i].v.occ)
\* what holds: an occurrence without child occurrences
C21_LeafMass ==
    \A i \in 1..Len(links) :
        (\A c \in Tokens : host.occ[c].parent # links[i].v.occ)
            => C21_Mass(links[i].v) /\ C21_Flat(links[i].v.occ)
\* what the code does for an occurrence with child occurrences: the bodies of
\* the occurrences two or more levels below it, and nothing else
C21_DeepOnly ==
    \A i \in 1..Len(links) :
        LET t == links[i].v.occ
            flat == get_flat_body(t)
        IN  (\E c \in Tokens : host.occ[c].parent = t)
                => {flat[k][1] : k \in 1..Len(flat)}
                      = {s \in Tokens : /\ C21_Under(s, t) /\ s # t /\ host.occ[s].parent # t}

(***************************************************************************)
(* C22: the body list get_sub_bodies records for a top-level occurrence.   *)
(***************************************************************************)
C22_TopLevel == {t \in DOMAIN body_mapper : host.occ[t].parent = 0}
C22_Recorded(t) == {body_mapper[t][i] : i \in 1..Len(body_mapper[t])}
\* the visible bodies of the occurrences in S
C22_Visible(S) ==
    UNION {{host.occ[s].bodies[k] : k \in {k \in 1..Len(host.occ[s].bodies) :
                                              host.occ[s].bodies[k].visible}} : s \in S}
\* C22: after get_sub_bodies the body list of every top-level occurrence is
\* exactly the visible bodies owned by it or by any of its descendants, and
\* holds no hidden body.
C22_FlattenedBodies ==
    \A t \in C22_TopLevel :
        /\ C22_Recorded(t) = C22_Visible({s \in Tokens : C21_Under(s, t)})
        /\ \A b \in C22_Recorded(t) : b.visible
\* what holds: the list of every occurrence, at any depth, is the visible
\* bodies the occurrence owns itself
C22_OwnBodies ==
    \A t \in DOMAIN body_mapper :
        /\ C22_Recorded(t) = C22_Visible({t})
        /\ \A b \in C22_Recorded(t) : b.visible

(***************************************************************************)
(* C23: the appearance an occurrence is given.                             *)
(***************************************************************************)
\* the first available of the occurrence's appearance, the appearance of the
\* first body that has one, the appearance of the component's material
C23_FirstAvailable(occ) ==
    LET painted == {k \in 1..Len(occ.bodies) : occ.bodies[k].app # NoAppearance}
    IN  IF occ.app # NoAppearance THEN occ.app
        ELSE IF painted # {} THEN occ.bodies[CHOOSE k \in painted : \A m \in painted : k <= m].app
        ELSE occ.mat
\* the material recorded for occurrence t
C23_Material(t) == Get(material_dict, format_name(links_by_token[t])).material
C23_Given(t, appearance) ==
    IF appearance # NoAppearance /\ appearance.color # None
    THEN /\ C23_Material(t) = format_name(convert_german(appearance.name))
         /\ Has(color_dict, C23_Material(t))
         /\ Get(color_dict, C23_Material(t)) = appearance.color
    ELSE C23_Material(t) = <<"silver_default">>
\* _materials has run
C23_Done == pc \in {"build", "bfs", "check", "done", "written", "exported"}
\* C23: every occurrence is given the first available of its own appearance,
\* the appearance of its first body that has one and the appearance of its
\* component's material; an occurrence whose bodies have no appearance and
\* whose component has a material is given the material's appearance; the
\* default silver material is given when that appearance has no colour.
C23_FallbackChain ==
    C23_Done => \A t \in Tokens : C23_Given(t, C23_FirstAvailable(host.occ[t]))
\* what holds: the material is consulted only for an occurrence that owns no
\* body at all
C23_ElifChain ==
    C23_Done =>
        \A t \in Tokens :
            LET occ == host.occ[t]
            IN  C23_Given(t, IF occ.app = NoAppearance /\ occ.bodies # <<>>
                                   /\ \A k \in 1..Len(occ.bodies) : occ.bodies[k].app = NoAppearance
                             THEN NoAppearance
                             ELSE C23_FirstAvailable(occ))

(***************************************************************************)
(* C24: axis and limits of a JointRecord by the kind of the joint.         *)
(***************************************************************************)
\* the records the step at hand adds
C24_Added == {joints_dict'[k].v : k \in (Len(joints_dict) + 1)..Len(joints_dict')}
C24_Zero(rec) == rec.axis = <<0, 0, 0>> /\ rec.upper_limit = 0 /\ rec.lower_limit = 0
\* millimetres in the target unit; a centimetre has 10
C24_Target == IF host.targetUnits = "mm" THEN 1 ELSE IF host.targetUnits = "cm" THEN 10 ELSE 1000
C24_Record(joint, rec) ==
    IF joint.jt = 1
    THEN /\ rec.type = "revolute"
         /\ rec.axis = joint.axis
         /\ IF joint.lo = joint.hi
            THEN rec.upper_limit = 314159 /\ rec.lower_limit = -314159
            ELSE rec.upper_limit = joint.hi /\ rec.lower_limit = joint.lo
    ELSE IF joint.jt = 2
    THEN /\ rec.type = "prismatic"
         /\ rec.axis = joint.axis
         /\ rec.upper_limit * C24_Target = joint.hi * 10
         /\ rec.lower_limit * C24_Target = joint.lo * 10
    ELSE C24_Zero(rec)
C24_Step ==
    /\ pc = "joints" => \A rec \in C24_Added : C24_Record(host.joints[j_idx], rec)
    /\ pc = "groups" => \A rec \in C24_Added : rec.type = "fixed" /\ C24_Zero(rec)
\* C24: the record of a rotational joint has the rotation axis and the
\* minimum and maximum angle as they are, or -3.14159 and 3.14159 when the
\* two are equal; the record of a sliding joint has the slide direction and
\* the minimum and maximum distance times 0.01 / (target unit in metres);
\* the record of any other joint, fixed or not, and of a rigid group has a
\* zero axis and zero limits.
C24_LimitsAndAxis == [][C24_Step]_vars
\* a rotational joint whose limits are equal and not zero has the full range
\* under target unit mm, next to nothing scaled
C24_Witness ==
    /\ pc = "done"
    /\ host.targetUnits = "mm"
    /\ Len(host.joints) = 1 /\ Len(joints_dict) = 1
    /\ host.joints[1].jt = 1 /\ host.joints[1].lo = 150000 /\ host.joints[1].hi = 150000
    /\ joints_dict[1].v.type = "revolute"
    /\ joints_dict[1].v.axis = <<1, 0, 0>>
    /\ joints_dict[1].v.upper_limit = 314159 /\ joints_dict[1].v.lower_limit = -314159

(***************************************************************************)
(* C25: get_scene_configuration on every occurrence tree.                  *)
(***************************************************************************)
\* the call returned a map that holds every occurrence of the assembly
C25_Returned ==
    /\ pc' = "base"
    /\ error' = NoError
    /\ {component_map'[i] : i \in 1..Len(component_map')} = Tokens
    /\ Len(component_map') = Cardinality(Tokens)
\* C25: get_scene_configuration never raises: for every occurrence tree, a
\* root without occurrences and occurrences without children included, it
\* completes and returns a map that holds every occurrence.
C25_SceneTotal == [][pc = "start" => C25_Returned]_vars
\* what holds: it completes on every tree with at least one occurrence,
\* whatever the nesting
C25_TotalOnOccurrences == [][(pc = "start" /\ Tokens # {}) => C25_Returned]_vars

(***************************************************************************)
(* C26: the emitted joints form a tree rooted at base_link.                *)
(***************************************************************************)
\* the kinematic loop is over and nothing has been rendered yet
C26_Built == pc = "check" \/ (pc = "done" /\ rendered.texts = <<>>)
\* the emitted joints that have link n as child
C26_Into(n) == {i \in 1..Len(joints) : joints[i].v.child = n}
\* an emitted joint comes from the record of its name and joins its endpoints
C26_FromRecord(i) ==
    /\ Has(joints_dict, joints[i].k)
    /\ joints[i].v.name = joints[i].k
    /\ \A k \in 1..Len(joints) : joints[k].k = joints[i].k => k = i
    /\ LET r == Get(joints_dict, joints[i].k)
       IN  \/ joints[i].v.parent = r.parent /\ joints[i].v.child = r.child
           \/ joints[i].v.parent = r.child /\ joints[i].v.child = r.parent
\* C26: after _build base_link is the child of no emitted joint, every other
\* link is the child of exactly one emitted joint, and every record yields
\* at most one joint, between the two endpoints of the record.
C26_JointTree ==
    C26_Built =>
        /\ C26_Into(<<"base_link">>) = {}
        /\ \A i \in 1..Len(links) :
              links[i].k # <<"base_link">> => Cardinality(C26_Into(links[i].k)) = 1
        /\ \A i \in 1..Len(joints) : C26_FromRecord(i)
\* what holds: every link but base_link is the child of at least one joint
C26_JointGraph ==
    C26_Built =>
        /\ C26_Into(<<"base_link">>) = {}
        /\ \A i \in 1..Len(links) :
              links[i].k # <<"base_link">> => Cardinality(C26_Into(links[i].k)) >= 1
        /\ \A i \in 1..Len(joints) : C26_FromRecord(i)

(***************************************************************************)
(* C27: the links the written joints refer to are written.                 *)
(***************************************************************************)
C27_Pieces(part) == {i \in 1..Len(writer_f) : writer_f[i].part = part}
\* the names of the link elements the file holds
C27_WrittenLinks ==
    {writer_f[i].text[1].name : i \in {i \in C27_Pieces("link") : writer_f[i].text # <<>>}}
        \cup {writer_f[i].text[1].name : i \in C27_Pieces("dummy_link")}
\* the names the joints of the file refer to
C27_Referred ==
    UNION {{writer_f[i].text[1].parent, writer_f[i].text[1].child}
              : i \in C27_Pieces("joint") \cup C27_Pieces("dummy_link_joint")}
\* C27: in the written robot description every link name that is parent or
\* child of a written joint, the child of dummy_link_joint included, is the
\* name of a link element of the document.
C27_LinksWritten == pc = "written" => C27_Referred \subseteq C27_WrittenLinks
\* what holds: every name referred to is the name of a link that was built,
\* written or not
C27_LinksBuilt ==
    pc = "written" =>
        C27_Referred \subseteq {format_name(links[i].k) : i \in 1..Len(links)} \cup {<<"dummy_link">>}

(***************************************************************************)
(* C28: the materials the written links refer to are in the colour table.  *)
(***************************************************************************)
\* the names of the material elements of the companion document
C28_Table ==
    {materials_f[i].text[1].name : i \in {i \in 1..Len(materials_f) : materials_f[i].part = "material"}}
\* the material names of the visual blocks of the written links
C28_Referred ==
    UNION {{writer_f[i].text[1].visual[k].material : k \in 1..Len(writer_f[i].text[1].visual)}
              : i \in {i \in C27_Pieces("link") : writer_f[i].text # <<>>}}
\* C28: every material name of a visual block of a written link, with one
\* mesh per link or one per body, is a material of the companion document,
\* and the companion document always has silver_default.
C28_MaterialsDefined ==
    pc = "written" => C28_Referred \subseteq C28_Table /\ <<"silver_default">> \in C28_Table
\* what holds: with one mesh per link every material is in the table, and
\* the table always has silver_default
C28_MergedDefined ==
    pc = "written" =>
        /\ ~host.sub_mesh => C28_Referred \subseteq C28_Table
        /\ host.sub_mesh => C28_Referred \subseteq {<<"silver">>}
        /\ <<"silver_default">> \in C28_Table
        /\ C28_Table = Keys(color_dict)

(***************************************************************************)
(* C29: the two name maps of the Configurator are inverse to each other.   *)
(***************************************************************************)
\* every token of links_by_token is found again under its name
C29_TokenToName ==
    \A t \in DOMAIN links_by_token :
        /\ links_by_token[t] \in DOMAIN links_by_name
        /\ links_by_name[links_by_token[t]] = t
\* every name of links_by_name is the name of the token stored under it
C29_NameToToken ==
    \A n \in DOMAIN links_by_name :
        /\ links_by_name[n] \in DOMAIN links_by_token
        /\ links_by_token[links_by_name[n]] = n
\* C29: in every reachable state links_by_token and links_by_name are
\* inverse to each other: a name stands for exactly one token and a token
\* has exactly one name.
C29_Inverse ==
    /\ C29_TokenToName
    /\ C29_NameToToken
    /\ \A n \in DOMAIN links_by_name :
           Cardinality({t \in DOMAIN links_by_token : links_by_token[t] = n}) = 1
\* the scene is built, an occurrence other than the base is displayed as
\* base_link and was renamed, and two named occurrences share a display name
C29_Witness ==
    /\ pc = "done"
    /\ \E t \in DOMAIN links_by_token :
           /\ t # base_link
           /\ host.occ[t].name = <<"base_link">>
           /\ links_by_token[t] # <<"base_link">>
    /\ \E t, u \in DOMAIN links_by_token :
           /\ t # u
           /\ host.occ[t].name = host.occ[u].name
           /\ links_by_token[t] # links_by_token[u]

(***************************************************************************)
(* C30: the mesh files the links refer to are the mesh files saved.        *)
(***************************************************************************)
\* the file names of the visual and collision blocks of the written links
C30_Referred ==
    UNION {{writer_f[i].text[1].visual[k].filename : k \in 1..Len(writer_f[i].text[1].visual)}
              \cup {writer_f[i].text[1].collision[k].filename
                       : k \in 1..Len(writer_f[i].text[1].collision)}
              : i \in {i \in C27_Pieces("link") : writer_f[i].text # <<>>}}
\* the names of the files saved one per body
C30_Saved == {meshes_f[i].file : i \in {i \in 1..Len(meshes_f) : meshes_f[i].kind = "body"}}
\* every name _build made, whether or not a link was written for its occurrence
C30_Built == UNION {{body_dict_urdf[i].v[k] : k \in 1..Len(body_dict_urdf[i].v)}
                       : i \in 1..Len(body_dict_urdf)}
\* C30: with one mesh per body, the set of mesh file names _build makes
\* for the rendered links equals the set of file names visible_to_stl saves, for
\* every assembly, hidden occurrences with visible bodies and differing
\* iteration orders included.
C30_MeshNamesAgree ==
    (pc = "exported" /\ host.sub_mesh) => C30_Built = C30_Saved
\* the part of it a reader of the written file depends on: every mesh file
\* a written link refers to has been saved
C30_ReferredSaved ==
    (pc = "exported" /\ host.sub_mesh) => C30_Referred \subseteq C30_Saved
\* what holds: when every occurrence is shown and the component map is in
\* the order of the host, every file a link refers to is saved, and the
\* files saved are the names _build made
C30_AgreeInHostOrder ==
    (/\ pc = "exported"
     /\ host.sub_mesh
     /\ component_map = Iota(Len(host.occ))
     /\ \A t \in Tokens : isLightBulbOn(t)) =>
        /\ C30_Referred \subseteq C30_Saved
        /\ C30_Saved = C30_Built

====
